---- MODULE Spec2Model ----
(***************************************************************************)
(* Model of the Flash USDT Generator repository: the FlashUSDTGenerator    *)
(* class of flash-usdt.js (session accessors, validateWallet,              *)
(* simulateFlashGeneration, estimateTransactionCost), the ledger it reads, *)
(* and the stand-alone transfer script of the repository.                  *)
(*                                                                         *)
(* Representation                                                          *)
(*  - A JavaScript BigInt is a sequence of decimal digits, most            *)
(*    significant first, without leading zeros (<<0>> is zero); the wei    *)
(*    amounts of the program exceed the integers TLC computes with.        *)
(*  - A string the program computes on (a formatted amount) is a sequence  *)
(*    of one-character strings; a message is a sequence of fragments and   *)
(*    string concatenation is \o.                                          *)
(*  - An absent value (null, undefined, an omitted argument) is <<>>, a    *)
(*    present one is <<v>>.                                                *)
(*  - Every async call is a frame on the stack of the call it belongs to;  *)
(*    a frame runs from one await to the next in one step.                 *)
(***************************************************************************)
EXTENDS Integers, Sequences, FiniteSets, TLC

(***************************************************************************)
(* BigInt arithmetic on digit sequences                                    *)
(***************************************************************************)
Zeros(n) == [i \in 1..n |-> 0]

RECURSIVE StripZeros(_)
StripZeros(s) == IF Len(s) > 1 /\ Head(s) = 0 THEN StripZeros(Tail(s)) ELSE s

RECURSIVE NatDigits(_)
NatDigits(n) == IF n < 10 THEN <<n>> ELSE NatDigits(n \div 10) \o <<n % 10>>

RECURSIVE MulCarry(_, _, _)
MulCarry(a, k, carry) ==
    IF a = <<>>
        THEN (IF carry = 0 THEN <<>> ELSE NatDigits(carry))
        ELSE LET t == a[Len(a)] * k + carry
             IN  MulCarry(SubSeq(a, 1, Len(a) - 1), k, t \div 10) \o <<t % 10>>

\* a * BigInt(k), exact
BigIntMul(a, k) == StripZeros(MulCarry(a, k, 0))

RECURSIVE LexGeq(_, _)
LexGeq(a, b) ==
    IF a = <<>> THEN TRUE
    ELSE IF Head(a) # Head(b) THEN Head(a) > Head(b)
    ELSE LexGeq(Tail(a), Tail(b))

\* a >= b on BigInt
BigIntGeq(a, b) ==
    IF Len(a) # Len(b) THEN Len(a) > Len(b) ELSE LexGeq(a, b)

(***************************************************************************)
(* Strings of characters                                                   *)
(***************************************************************************)
DigitChars == <<"0", "1", "2", "3", "4", "5", "6", "7", "8", "9">>

DigitOf(ch) == CHOOSE d \in 0..9 : DigitChars[d + 1] = ch

\* BigInt.prototype.toString()
BigIntToString(a) == [i \in 1..Len(a) |-> DigitChars[a[i] + 1]]

RECURSIVE TrimWhole(_)
TrimWhole(s) == IF s[1] = "0" /\ s[2] # "." THEN TrimWhole(Tail(s)) ELSE s

\* s without its trailing zeros, except the one that follows the point: s up to its
\* last character that is not a zero or that follows the point
TrimDecimal(s) ==
    LET kept == { n \in 2..Len(s) : s[n] # "0" \/ s[n - 1] = "." }
        last == CHOOSE n \in kept : \A m \in kept : m <= n
    IN  SubSeq(s, 1, last)

RECURSIVE PadWhole(_, _)
PadWhole(s, decimals) ==
    IF Len(s) <= decimals THEN PadWhole(<<"0">> \o s, decimals) ELSE s

\* ethers.formatUnits(value, decimals): the decimal rendering of value / 10^decimals,
\* with at least one digit on each side of the point and no other padding zeros
formatUnits(value, decimals) ==
    LET str    == BigIntToString(value)
        padded == PadWhole(str, decimals)
        index  == Len(padded) - decimals
        dotted == SubSeq(padded, 1, index) \o <<".">> \o SubSeq(padded, index + 1, Len(padded))
    IN  IF decimals = 0 THEN str ELSE TrimDecimal(TrimWhole(dotted))

EtherDecimals == 18
GweiDecimals == 9
UsdtDecimals == 6

formatEther(value) == formatUnits(value, EtherDecimals)

\* position of the decimal point in s, 0 when there is none
PointAt(s) == IF \E i \in 1..Len(s) : s[i] = "."
                THEN CHOOSE i \in 1..Len(s) : s[i] = "."
                ELSE 0

\* ethers.parseUnits(str, decimals) for an unsigned decimal string with at most
\* `decimals` fractional digits
parseUnits(str, decimals) ==
    LET p     == PointAt(str)
        whole == IF p = 0 THEN str ELSE SubSeq(str, 1, p - 1)
        frac  == IF p = 0 THEN <<>> ELSE SubSeq(str, p + 1, Len(str))
        all   == whole \o frac \o [i \in 1..(decimals - Len(frac)) |-> "0"]
    IN  StripZeros([i \in 1..Len(all) |-> DigitOf(all[i])])

parseEther(str) == parseUnits(str, EtherDecimals)

(***************************************************************************)
(* Configuration constants (CONFIG) and the fixed data of the scripts      *)
(***************************************************************************)
FLASH_AMOUNT == "300"
NETWORK == "mainnet"
GAS_LIMIT == 21000
USDT_CONTRACT_ADDRESS == "0xdAC17F958D2ee523a2206206994597C13D831ec7"
MIN_BALANCE_REQUIRED == parseEther(<<"0", ".", "0", "1">>)

\* the stand-alone transfer script: recipient and parseUnits('300', 6)
recipient == "0x96426f0d2eb6b0363281f77a7b6d176d407bbb1b"
amount == 300 * 1000000

\* A string the program inspects (a key, a credential) is the sequence of its
\* characters. The session of the test suite: a well-formed key and a 32-character
\* credential
TEST_PRIVATE_KEY ==
    <<"0", "x">> \o
    << "1", "2", "3", "4", "5", "6", "7", "8", "9", "0", "a", "b", "c", "d", "e", "f",
       "1", "2", "3", "4", "5", "6", "7", "8", "9", "0", "a", "b", "c", "d", "e", "f",
       "1", "2", "3", "4", "5", "6", "7", "8", "9", "0", "a", "b", "c", "d", "e", "f",
       "1", "2", "3", "4", "5", "6", "7", "8", "9", "0", "a", "b", "c", "d", "e", "f" >>
TEST_INFURA_API_KEY ==
    << "1", "2", "3", "4", "5", "6", "7", "8", "9", "0", "1", "2", "3", "4", "5", "6",
       "7", "8", "9", "0", "1", "2", "3", "4", "5", "6", "7", "8", "9", "0", "1", "2" >>
\* the keys and credentials the tests reject
INVALID_KEY == << "i", "n", "v", "a", "l", "i", "d", "_", "k", "e", "y" >>
INVALID_API_KEY == << "s", "h", "o", "r", "t" >>
\* the values main() ships with
CLIENT_PRIVATE_KEY == << "Y", "O", "U", "R", "_", "P", "R", "I", "V", "A", "T", "E", "_", "K", "E", "Y", "_", "H", "E", "R", "E" >>
INFURA_API_KEY == << "Y", "O", "U", "R", "_", "I", "N", "F", "U", "R", "A", "_", "A", "P", "I", "_", "K", "E", "Y", "_", "H", "E", "R", "E" >>

(***************************************************************************)
(* ethers: new Wallet(key). A string key gets the prefix "0x" when it has  *)
(* none; SigningKey takes the 32 bytes the hex string denotes; the wallet  *)
(* derives its address from the public key, which exists for the scalars   *)
(* 1 .. n-1 of secp256k1. An argument that is no hex string of whole bytes  *)
(* is echoed in the error message; a wrong length is reported with the     *)
(* value redacted.                                                         *)
(***************************************************************************)
HexDigits == <<"0", "1", "2", "3", "4", "5", "6", "7", "8", "9", "a", "b", "c", "d", "e", "f">>
UpperHex == <<"A", "B", "C", "D", "E", "F">>

IsHexChar(ch) == (\E i \in 1..16 : HexDigits[i] = ch) \/ (\E i \in 1..6 : UpperHex[i] = ch)

HexValue(ch) ==
    IF \E i \in 1..16 : HexDigits[i] = ch
        THEN (CHOOSE i \in 1..16 : HexDigits[i] = ch) - 1
        ELSE (CHOOSE i \in 1..6 : UpperHex[i] = ch) + 9

\* key.startsWith("0x") ? key : "0x" + key
WithHexPrefix(key) ==
    IF Len(key) >= 2 /\ key[1] = "0" /\ key[2] = "x" THEN key ELSE <<"0", "x">> \o key

\* /^0x([0-9a-f][0-9a-f])*$/i
IsBytesLike(str) ==
    /\ Len(str) >= 2 /\ str[1] = "0" /\ str[2] = "x"
    /\ Len(str) % 2 = 0
    /\ \A i \in 3..Len(str) : IsHexChar(str[i])

\* the order n of the group of secp256k1
CurveOrderHex ==
    << "F", "F", "F", "F", "F", "F", "F", "F", "F", "F", "F", "F", "F", "F", "F", "F",
       "F", "F", "F", "F", "F", "F", "F", "F", "F", "F", "F", "F", "F", "F", "F", "E",
       "B", "A", "A", "E", "D", "C", "E", "6", "A", "F", "4", "8", "A", "0", "3", "B",
       "B", "F", "D", "2", "5", "E", "8", "C", "D", "0", "3", "6", "4", "1", "4", "1" >>
CurveOrder == [i \in 1..64 |-> HexValue(CurveOrderHex[i])]

\* computeAddress(publicKey): '0x' and the last 40 hex digits of the hash of the
\* public key. The digits are not computed: each scalar of the model has its own
\* opaque address, the same for every spelling of the scalar.
computeAddress(scalar) ==
    <<"0x", IF scalar = [i \in 1..64 |-> HexValue(TEST_PRIVATE_KEY[i + 2])]
                THEN "<address of the test key>"
                ELSE "<address of another key>">>

EthersWallet(key) ==
    LET hex    == WithHexPrefix(key)
        scalar == [i \in 1..(Len(hex) - 2) |-> HexValue(hex[i + 2])]
    IN  IF ~IsBytesLike(hex)
            THEN [ ok |-> FALSE, address |-> <<>>,
                   message |-> <<"invalid BytesLike value (argument=\"value\", value=\"">> \o hex
                                \o <<"\", code=INVALID_ARGUMENT)">> ]
        ELSE IF Len(scalar) # 64
            THEN [ ok |-> FALSE, address |-> <<>>,
                   message |-> <<"invalid private key (argument=\"privateKey\", value=\"[REDACTED]\", code=INVALID_ARGUMENT)">> ]
        ELSE IF scalar = Zeros(64) \/ LexGeq(scalar, CurveOrder)
            THEN [ ok |-> FALSE, address |-> <<>>,
                   message |-> <<"Expected valid bigint: 0 < bigint < curve.n">> ]
        ELSE [ ok |-> TRUE, address |-> computeAddress(scalar), message |-> <<>> ]

\* the address of the wallet of the test suite's session
WalletAddress == EthersWallet(TEST_PRIVATE_KEY).address

(***************************************************************************)
(* formatUSDTAmount(amount) = parseFloat(amount).toFixed(6)                *)
(*                                                                         *)
(* A Number is NaN, an infinity, or a finite value digits * 10^exponent    *)
(* with a sign. The literals of the model have at most 15 significant      *)
(* digits, so the double nearest to a literal rounds at the sixth decimal  *)
(* as the literal does, unless the literal lies half-way between two       *)
(* results: then the double lies on either side and both roundings are     *)
(* outcomes.                                                               *)
(***************************************************************************)
NaN == [kind |-> "NaN", negative |-> FALSE, digits |-> <<>>, exponent |-> 0]
Infinity(negative) == [kind |-> "Infinity", negative |-> negative, digits |-> <<>>, exponent |-> 0]
Finite(negative, digits, exponent) ==
    [kind |-> "finite", negative |-> negative, digits |-> digits, exponent |-> exponent]

IsDigit(ch) == \E d \in 1..10 : DigitChars[d] = ch
WhiteSpace == {" ", "\t", "\n"}

\* JsToString(argument), the first step of parseFloat: a string is itself, a number is
\* given by its rendering
JsToString(value) ==
    CASE value.typeof = "undefined" -> <<"u", "n", "d", "e", "f", "i", "n", "e", "d">>
      [] value.isNull               -> <<"n", "u", "l", "l">>
      [] OTHER                      -> value.val

RECURSIVE TrimStart(_)
TrimStart(str) ==
    IF Len(str) > 0 /\ str[1] \in WhiteSpace THEN TrimStart(Tail(str)) ELSE str

\* how many digits str holds from position i on
RECURSIVE DigitRun(_, _)
DigitRun(str, i) ==
    IF i <= Len(str) /\ IsDigit(str[i]) THEN 1 + DigitRun(str, i + 1) ELSE 0

\* the number a run of at most three digits denotes
RECURSIVE SmallNat(_)
SmallNat(str) ==
    IF Len(str) = 0 THEN 0 ELSE 10 * SmallNat(SubSeq(str, 1, Len(str) - 1)) + DigitOf(str[Len(str)])

\* parseFloat(string): the longest prefix of the trimmed string that is a
\* StrDecimalLiteral, NaN when there is none
parseFloat(string) ==
    LET str      == TrimStart(string)
        signed   == Len(str) > 0 /\ str[1] \in {"+", "-"}
        negative == Len(str) > 0 /\ str[1] = "-"
        b        == IF signed THEN 2 ELSE 1
        nInt     == DigitRun(str, b)
        hasPoint == b + nInt <= Len(str) /\ str[b + nInt] = "."
        nFrac    == IF hasPoint THEN DigitRun(str, b + nInt + 1) ELSE 0
        e        == b + nInt + (IF hasPoint THEN 1 + nFrac ELSE 0)
        hasE     == e <= Len(str) /\ str[e] \in {"e", "E"}
        eSigned  == hasE /\ e + 1 <= Len(str) /\ str[e + 1] \in {"+", "-"}
        x        == IF eSigned THEN e + 2 ELSE e + 1
        nExp     == IF hasE THEN DigitRun(str, x) ELSE 0
        exp      == IF nExp = 0 THEN 0
                    ELSE IF eSigned /\ str[e + 1] = "-"
                        THEN 0 - SmallNat(SubSeq(str, x, x + nExp - 1))
                        ELSE SmallNat(SubSeq(str, x, x + nExp - 1))
        mantissa == SubSeq(str, b, b + nInt - 1) \o SubSeq(str, b + nInt + 1, b + nInt + nFrac)
    IN  IF Len(str) >= b + 7 /\ SubSeq(str, b, b + 7) = <<"I", "n", "f", "i", "n", "i", "t", "y">>
            THEN Infinity(negative)
        ELSE IF nInt + nFrac = 0
            THEN NaN
        ELSE Finite(negative, [i \in 1..Len(mantissa) |-> DigitOf(mantissa[i])], exp - nFrac)

\* a + 1n
RECURSIVE BigIntInc(_)
BigIntInc(a) ==
    IF Len(a) = 0 THEN <<1>>
    ELSE IF a[Len(a)] < 9 THEN [a EXCEPT ![Len(a)] = @ + 1]
    ELSE BigIntInc(SubSeq(a, 1, Len(a) - 1)) \o <<0>>

RECURSIVE StripTrailingZeros(_)
StripTrailingZeros(a) ==
    IF Len(a) > 1 /\ a[Len(a)] = 0 THEN StripTrailingZeros(SubSeq(a, 1, Len(a) - 1)) ELSE a

\* Number::toString of a finite value of at least 10^21: d[.ddd]e+n
ExponentialString(digits, exponent) ==
    LET sig == StripTrailingZeros(digits)
        n   == Len(digits) + exponent - 1
    IN  <<DigitChars[sig[1] + 1]>>
        \o (IF Len(sig) > 1 THEN <<".">> \o BigIntToString(Tail(sig)) ELSE <<>>)
        \o <<"e", "+">> \o BigIntToString(NatDigits(n))

\* the integers n for which n / 10^f - x is as close to zero as possible, x the double
\* nearest to digits * 10^exponent
Rounded(digits, exponent, f) ==
    LET shift   == exponent + f
        drop    == 0 - shift
        kept    == IF drop >= Len(digits) THEN <<0>> ELSE SubSeq(digits, 1, Len(digits) - drop)
        dropped == IF drop > Len(digits)
                    THEN Zeros(drop - Len(digits)) \o digits
                    ELSE SubSeq(digits, Len(digits) - drop + 1, Len(digits))
        halfway == dropped[1] = 5 /\ \A i \in 2..Len(dropped) : dropped[i] = 0
    IN  IF digits = <<0>> THEN { <<0>> }
        ELSE IF shift >= 0 THEN { digits \o Zeros(shift) }
        ELSE IF halfway THEN { kept, StripZeros(BigIntInc(kept)) }
        ELSE IF dropped[1] >= 5 THEN { StripZeros(BigIntInc(kept)) }
        ELSE { kept }

\* Number.prototype.toFixed(fractionDigits): the strings it may return for x
toFixed(x, fractionDigits) ==
    LET digits == StripZeros(x.digits)
        sign   == IF x.negative /\ digits # <<0>> THEN <<"-">> ELSE <<>>
    IN  IF x.kind = "NaN" THEN { <<"N", "a", "N">> }
        ELSE IF x.kind = "Infinity"
            THEN { (IF x.negative THEN <<"-">> ELSE <<>>) \o <<"I", "n", "f", "i", "n", "i", "t", "y">> }
        ELSE IF digits # <<0>> /\ Len(digits) + x.exponent >= 22
            THEN { sign \o ExponentialString(digits, x.exponent) }
        ELSE { sign \o SubSeq(m, 1, Len(m) - fractionDigits) \o <<".">>
                    \o SubSeq(m, Len(m) - fractionDigits + 1, Len(m)) :
                 m \in { PadWhole(BigIntToString(n), fractionDigits) :
                            n \in Rounded(digits, x.exponent, fractionDigits) } }

\* formatUSDTAmount(amount): the strings it may return
formatUSDTAmount(value) == toFixed(parseFloat(JsToString(value)), 6)

(***************************************************************************)
(* Bounds and input sets                                                   *)
(***************************************************************************)
\* how many times the stand-alone script is run
MaxScriptRuns == 1

\* the calls a caller may have in flight on the session
CallIds == {1, 2}
\* one caller awaiting each call before the next
Sequential == {1}

\* native balances in wei: 0, 0.01 ETH - 1 wei, 0.01 ETH, 1.234 ETH
EthBalances == { <<0>>, [i \in 1..16 |-> 9], <<1>> \o Zeros(16), <<1, 2, 3, 4>> \o Zeros(15) }
\* token balances in 10^-6 USDT: 0, 300 USDT, 1500 USDT
UsdtBalances == { 0, 300 * 1000000, 1500 * 1000000 }
\* gas prices in wei: 0, 1 wei, 0.999999999 gwei, 20 gwei, 20.5 gwei,
\* 123.456789012 gwei, and 2^53 + 1 wei (no double holds it)
GasPrices == { <<0>>, <<1>>, [i \in 1..9 |-> 9], <<2, 0>> \o Zeros(9), <<2, 0, 5>> \o Zeros(8),
               <<1, 2, 3, 4, 5, 6, 7, 8, 9, 0, 1, 2>>,
               <<9, 0, 0, 7, 1, 9, 9, 2, 5, 4, 7, 4, 0, 9, 9, 3>> }
\* maxFeePerGas: absent (a network without EIP-1559), 0 or 30 gwei
MaxFees == { <<>>, << <<0>> >>, << <<3, 0>> \o Zeros(9) >> }
\* the ledgers a session starts on: each quantity ranges over its set while the
\* others have the value of the documentation's examples (1.234 ETH, 1500 USDT,
\* 20 gwei, 30 gwei); no operation combines two of the quantities in one result field
Ledger(eth, usdt, gasPrice, maxFeePerGas) ==
    [ eth |-> eth, usdt |-> usdt, recipientUsdt |-> 0,
      gasPrice |-> gasPrice, maxFeePerGas |-> maxFeePerGas, blockNumber |-> 19000000 ]
DocEth == <<1, 2, 3, 4>> \o Zeros(15)
DocUsdt == 1500 * 1000000
DocGasPrice == <<2, 0>> \o Zeros(9)
DocMaxFee == << <<3, 0>> \o Zeros(9) >>
Ledgers ==
    { Ledger(e, DocUsdt, DocGasPrice, DocMaxFee) : e \in EthBalances } \cup
    { Ledger(DocEth, u, DocGasPrice, DocMaxFee) : u \in UsdtBalances } \cup
    { Ledger(DocEth, DocUsdt, g, DocMaxFee) : g \in GasPrices } \cup
    { Ledger(DocEth, DocUsdt, DocGasPrice, m) : m \in MaxFees }
\* messages of transport failures
TransportErrors == { <<"could not detect network">>, <<"request timeout">> }
\* every fragment of those messages
TransportErrorFragments == UNION { {e[i] : i \in 1..Len(e)} : e \in TransportErrors }
\* the amounts a caller asks to simulate: omitted, or given
Amounts == { <<>>, <<"300">>, <<"1000">> }
\* the gas limits a caller passes to estimateTransactionCost: none, or one
GasLimitArgs == { <<>>, <<21000>>, <<50000>> }
\* the secrets a caller constructs a session with or has validated: the empty
\* string, 'invalid_key', the test key with and without its prefix, the test key
\* less its last character (63 hex digits), less its last two (31 bytes), with a
\* letter that is no hex digit, the scalar zero, the group order n, and n - 1
Secrets ==
    { <<>>, INVALID_KEY, TEST_PRIVATE_KEY, SubSeq(TEST_PRIVATE_KEY, 3, 66),
      SubSeq(TEST_PRIVATE_KEY, 1, 65), SubSeq(TEST_PRIVATE_KEY, 1, 64),
      [TEST_PRIVATE_KEY EXCEPT ![40] = "g"],
      <<"0", "x">> \o [i \in 1..64 |-> "0"],
      <<"0", "x">> \o CurveOrderHex,
      <<"0", "x">> \o [CurveOrderHex EXCEPT ![64] = "0"] }
\* a credential of 32 characters that is none of a project of the endpoint
UNREGISTERED_API_KEY == [i \in 1..32 |-> IF i % 2 = 1 THEN "k" ELSE "-"]
\* the credentials a caller constructs a session with
Credentials == { <<>>, INVALID_API_KEY, INFURA_API_KEY, TEST_INFURA_API_KEY, UNREGISTERED_API_KEY }
\* the credentials the endpoint serves: every read made with another one fails
RegisteredProjects == { TEST_INFURA_API_KEY }
\* JavaScript values passed where a string is expected
\* (val: the characters of a string, the elements of an array, the digits of a number)
JsString(str) == [typeof |-> "string", isNull |-> FALSE, val |-> str]
JsArray(elems) == [typeof |-> "object", isNull |-> FALSE, val |-> elems]
JsNumber(digits) == [typeof |-> "number", isNull |-> FALSE, val |-> digits]
JsNull == [typeof |-> "object", isNull |-> TRUE, val |-> <<>>]
JsUndefined == [typeof |-> "undefined", isNull |-> FALSE, val |-> <<>>]
\* what a caller passes to validateInfuraApiKey
ApiKeyInputs ==
    { JsString(k) : k \in Credentials } \cup
    { JsString([i \in 1..31 |-> "a"]), JsString([i \in 1..33 |-> "a"]),
      JsString([i \in 1..32 |-> " "]),
      JsArray([i \in 1..32 |-> "a"]), JsNumber(TEST_INFURA_API_KEY), JsNull, JsUndefined }
\* what a caller passes to formatUSDTAmount. Numeric: the numbers 0, 100, 123.456,
\* 123.456789, 0.000001, 1e-7, -5.5, 1.0000005, 999999999999999, 1e21 and 1.5e22, each
\* given by its rendering, and strings that are a decimal literal
NumericAmounts ==
    { JsNumber(<<"0">>),
      JsNumber(<<"1", "0", "0">>),
      JsNumber(<<"1", "2", "3", ".", "4", "5", "6">>),
      JsNumber(<<"1", "2", "3", ".", "4", "5", "6", "7", "8", "9">>),
      JsNumber(<<"0", ".", "0", "0", "0", "0", "0", "1">>),
      JsNumber(<<"1", "e", "-", "7">>),
      JsNumber(<<"-", "5", ".", "5">>),
      JsNumber(<<"1", ".", "0", "0", "0", "0", "0", "0", "5">>),
      JsNumber(<<"9", "9", "9", "9", "9", "9", "9", "9", "9", "9", "9", "9", "9", "9", "9">>),
      JsNumber(<<"1", "e", "+", "2", "1">>),
      JsNumber(<<"1", ".", "5", "e", "+", "2", "2">>) }
    \cup
    { JsString(<<"3", "0", "0">>),
      JsString(<<"5", "0", "0", ".", "1", "2", "3", "4", "5", "6", "7", "8", "9">>),
      JsString(<<"0", ".", "1", "2", "3", "4", "5", "6", "4">>),
      JsString(<<"0", ".", "1", "2", "3", "4", "5", "6", "7">>),
      JsString(<<" ", " ", "4", "2">>),
      JsString(<<".", "5">>),
      JsString(<<"1", "e", "3">>),
      JsString(<<"-", "0", ".", "0", "0", "0", "0", "0", "0", "1">>),
      JsString(<<"1", "e", "2", "1">>) }
\* not numeric: NaN, undefined, null, and strings that are no decimal literal
NonNumericAmounts ==
    { JsNumber(<<"N", "a", "N">>), JsUndefined, JsNull,
      JsString(<<"a", "b", "c">>),
      JsString(<<>>),
      JsString(<<"1", "2", "a", "b", "c">>),
      JsString(<<"0", "x", "1", "0">>),
      JsString(<<"1", ",", "0", "0", "0">>),
      JsString(<<".">>) }
AmountInputs == NumericAmounts \cup NonNumericAmounts
\* the values main() is run with once its two constants are edited, or not
MainKeys == { CLIENT_PRIVATE_KEY, INVALID_KEY, <<"0", "x">> \o [i \in 1..64 |-> "0"], TEST_PRIVATE_KEY }
MainApiKeys == { INFURA_API_KEY, INVALID_API_KEY, TEST_INFURA_API_KEY, UNREGISTERED_API_KEY }
\* what new Date().toISOString() may return
Timestamps == { "2024-01-20T10:30:45.123Z", "2024-01-21T08:00:00.000Z" }

(***************************************************************************)
(* State                                                                   *)
(***************************************************************************)
VARIABLES
    ledger,      \* the remote ledger: balances and fee data
    session,     \* the FlashUSDTGenerator instance: its fields
    call,        \* per call id: the operation called and its arguments
    stack,       \* per call id: the frames of the async functions in progress
    res,         \* per call id: the value or exception delivered to the top frame,
                 \*   or, with an empty stack, to the caller
    trace,       \* per call id: the remote reads and timers issued, with their outcome
                 \*   and, for a read that succeeded, the value it returned
    console,     \* per call id: the lines written to the console since the call began
    txs,         \* the transactions submitted to the ledger
    scriptRuns,  \* runs of the stand-alone script so far
    runner       \* the TestRunner of the test suite: its tests and its results

vars == <<ledger, session, call, stack, res, trace, console, txs, scriptRuns, runner>>

NoRes == [kind |-> "none", val |-> <<>>]
NoCall == [op |-> "none", args |-> <<>>]

\* constructor + initialize(): provider, wallet and contract bound once
NewSession(privateKey, infuraApiKey, network) ==
    [ privateKey   |-> privateKey,
      infuraApiKey |-> infuraApiKey,
      network      |-> network,
      provider     |-> << [network |-> network, apiKey |-> infuraApiKey] >>,
      wallet       |-> << [address |-> EthersWallet(privateKey).address] >>,
      usdtContract |-> << [address |-> USDT_CONTRACT_ADDRESS,
                           runner  |-> EthersWallet(privateKey).address] >> ]

\* the caller holds no session
NoSession ==
    [ privateKey |-> <<>>, infuraApiKey |-> <<>>, network |-> <<>>,
      provider |-> <<>>, wallet |-> <<>>, usdtContract |-> <<>> ]

HasSession == session # NoSession

\* variant of initialize: the credential is format-checked before the provider is made
initialize_ChecksCredential(privateKey, infuraApiKey, network) ==
    LET wallet == EthersWallet(privateKey)
    IN  IF Len(infuraApiKey) # 32
            THEN [ ok |-> FALSE, session |-> NoSession,
                   message |-> <<"Initialization failed: ", "invalid project id">> ]
        ELSE IF wallet.ok
            THEN [ ok |-> TRUE, session |-> NewSession(privateKey, infuraApiKey, network),
                   message |-> <<>> ]
            ELSE [ ok |-> FALSE, session |-> NoSession,
                   message |-> <<"Initialization failed: ">> \o wallet.message ]

\* initialize(): the provider is created whatever the credential, the wallet only from
\* a key ethers accepts; the catch clause wraps what ethers threw
initialize(privateKey, infuraApiKey, network) ==
    LET wallet == EthersWallet(privateKey)
    IN  IF wallet.ok
            THEN [ ok |-> TRUE, session |-> NewSession(privateKey, infuraApiKey, network),
                   message |-> <<>> ]
            ELSE [ ok |-> FALSE, session |-> NoSession,
                   message |-> <<"Initialization failed: ">> \o wallet.message ]

\* variant of validatePrivateKey: the key is only checked to be 32 bytes of hex
validatePrivateKey_FormatOnly(privateKey) ==
    IsBytesLike(WithHexPrefix(privateKey)) /\ Len(WithHexPrefix(privateKey)) = 66

\* validatePrivateKey(privateKey): new ethers.Wallet(privateKey) in a try
validatePrivateKey(privateKey) == EthersWallet(privateKey).ok

\* variant of validateInfuraApiKey: the length alone is tested
validateInfuraApiKey_LengthOnly(apiKey) ==
    apiKey.typeof \in {"string", "object"} /\ ~apiKey.isNull /\ Len(apiKey.val) = 32

\* validateInfuraApiKey(apiKey)
validateInfuraApiKey(apiKey) == apiKey.typeof = "string" /\ Len(apiKey.val) = 32

\* new TestRunner()
NewTestRunner == [tests |-> <<>>, results |-> <<>>]

Init ==
    /\ ledger \in Ledgers
    /\ session = NewSession(TEST_PRIVATE_KEY, TEST_INFURA_API_KEY, NETWORK)
    /\ call = [c \in CallIds |-> NoCall]
    /\ stack = [c \in CallIds |-> <<>>]
    /\ res = [c \in CallIds |-> NoRes]
    /\ trace = [c \in CallIds |-> <<>>]
    /\ console = [c \in CallIds |-> <<>>]
    /\ txs = <<>>
    /\ scriptRuns = 0
    /\ runner = NewTestRunner

(***************************************************************************)
(* Frames                                                                  *)
(***************************************************************************)
\* loc holds the object the function builds, aux its other local constants
Frame(fn, args, loc) == [fn |-> fn, pc |-> "start", args |-> args, loc |-> loc, aux |-> <<>>]

Top(c) == stack[c][Len(stack[c])]
Idle(c) == Len(stack[c]) = 0 /\ res[c].kind = "none"
Done(c) == Len(stack[c]) = 0 /\ res[c].kind # "none"
Pending(c) == Len(trace[c]) > 0 /\ trace[c][Len(trace[c])].st = "pending"
\* the top frame is fn at pc, entered and not yet run
AtStart(c, fn) == Len(stack[c]) > 0 /\ Top(c).fn = fn /\ Top(c).pc = "start"
\* the top frame is fn suspended at pc, and what it awaits has arrived
Resumed(c, fn, pc) ==
    Len(stack[c]) > 0 /\ Top(c).fn = fn /\ Top(c).pc = pc /\ res[c].kind # "none"

WithTop(c, f) == [stack EXCEPT ![c] = [@ EXCEPT ![Len(@)] = f]]

\* await <remote read>: suspend the top frame f at pc
Await(c, f, pc, read) ==
    /\ stack' = WithTop(c, [f EXCEPT !.pc = pc])
    /\ trace' = [trace EXCEPT ![c] = Append(@, [read |-> read, st |-> "pending",
                                                msg |-> <<>>, val |-> <<>>])]
    /\ res' = [res EXCEPT ![c] = NoRes]

\* await this.fn(args): suspend the top frame f at pc and enter fn
AwaitCall(c, f, pc, fn, args, loc) ==
    /\ stack' = [stack EXCEPT ![c] = Append([@ EXCEPT ![Len(@)] = [f EXCEPT !.pc = pc]],
                                            Frame(fn, args, loc))]
    /\ res' = [res EXCEPT ![c] = NoRes]
    /\ UNCHANGED trace

\* return v / throw v from the top frame
Finish(c, kind, v) ==
    /\ stack' = [stack EXCEPT ![c] = SubSeq(@, 1, Len(@) - 1)]
    /\ res' = [res EXCEPT ![c] = [kind |-> kind, val |-> v]]
    /\ UNCHANGED trace

Error(prefix, message) == <<prefix>> \o message

(***************************************************************************)
(* The ledger node (LedgerClient): answers of the remote reads             *)
(***************************************************************************)
ReadValue(read) ==
    CASE read = "getBalance"     -> ledger.eth
      [] read = "balanceOf"      -> NatDigits(ledger.usdt)
      [] read = "getFeeData"     -> [gasPrice |-> ledger.gasPrice, maxFeePerGas |-> ledger.maxFeePerGas]
      [] read = "getNetwork"     -> [name |-> session.network, chainId |-> <<1>>]
      [] read = "getBlockNumber" -> ledger.blockNumber
      [] read = "name"           -> "Tether USD"
      [] read = "symbol"         -> "USDT"
      [] read = "decimals"       -> <<6>>
      [] read = "delay"          -> <<>>

SetLast(c, st, msg) ==
    [trace EXCEPT ![c][Len(trace[c])] = [@ EXCEPT !.st = st, !.msg = msg]]

\* the outstanding read of call c returns the value the ledger holds now; the
\* endpoint answers only a credential it knows
ReadSucceeds(c) ==
    /\ Pending(c)
    /\ session.provider[1].apiKey \in RegisteredProjects
    /\ trace[c][Len(trace[c])].read # "delay"
    /\ LET value == ReadValue(trace[c][Len(trace[c])].read)
       IN  /\ trace' = [SetLast(c, "ok", <<>>) EXCEPT ![c][Len(trace[c])].val = <<value>>]
           /\ res' = [res EXCEPT ![c] = [kind |-> "return", val |-> value]]
    /\ UNCHANGED <<ledger, session, call, stack, console, txs, scriptRuns, runner>>

\* the outstanding read of call c fails with a transport error
ReadFails(c) ==
    /\ Pending(c)
    /\ trace[c][Len(trace[c])].read # "delay"
    /\ \E e \in TransportErrors :
        /\ trace' = SetLast(c, "fail", e)
        /\ res' = [res EXCEPT ![c] = [kind |-> "throw", val |-> e]]
    /\ UNCHANGED <<ledger, session, call, stack, console, txs, scriptRuns, runner>>

\* setTimeout fires: the promise of delay(ms) resolves
TimerFires(c) ==
    /\ Pending(c)
    /\ trace[c][Len(trace[c])].read = "delay"
    /\ trace' = SetLast(c, "ok", <<>>)
    /\ res' = [res EXCEPT ![c] = [kind |-> "return", val |-> <<>>]]
    /\ UNCHANGED <<ledger, session, call, stack, console, txs, scriptRuns, runner>>

\* no method assigns a field of the session, and none submits a transaction
Untouched == UNCHANGED <<ledger, session, call, txs, scriptRuns, runner>>

Frozen == Untouched /\ UNCHANGED console

\* console.log(text) and console.log(text, obj): the emoji that open most lines are left out
Line(text) == [text |-> text, obj |-> <<>>]
LineWith(text, obj) == [text |-> text, obj |-> <<obj>>]

\* the lines are written to the console
Say(c, lines) == console' = [console EXCEPT ![c] = @ \o lines]

(***************************************************************************)
(* getEthBalance, getUsdtBalance, hasSufficientBalance                     *)
(***************************************************************************)
\* variant of getEthBalance_Start: the token-balance read is started as well, unawaited
getEthBalance_Start_Prefetches(c) ==
    /\ AtStart(c, "getEthBalance")
    /\ stack' = WithTop(c, [Top(c) EXCEPT !.pc = "getBalance"])
    /\ trace' = [trace EXCEPT ![c] = @ \o
                    << [read |-> "balanceOf", st |-> "pending", msg |-> <<>>, val |-> <<>>],
                       [read |-> "getBalance", st |-> "pending", msg |-> <<>>, val |-> <<>>] >>]
    /\ res' = [res EXCEPT ![c] = NoRes]
    /\ Frozen

getEthBalance_Start(c) ==
    /\ AtStart(c, "getEthBalance")
    /\ Await(c, Top(c), "getBalance", "getBalance")
    /\ Frozen

\* variant of getEthBalance_Resume: the catch clause rethrows the error it caught
getEthBalance_Resume_Unwrapped(c) ==
    /\ Resumed(c, "getEthBalance", "getBalance")
    /\ IF res[c].kind = "return"
        THEN Finish(c, "return", formatEther(res[c].val))
        ELSE Finish(c, "throw", res[c].val)
    /\ Frozen

getEthBalance_Resume(c) ==
    /\ Resumed(c, "getEthBalance", "getBalance")
    /\ IF res[c].kind = "return"
        THEN Finish(c, "return", formatEther(res[c].val))
        ELSE Finish(c, "throw", Error("Failed to get ETH balance: ", res[c].val))
    /\ Frozen

getUsdtBalance_Start(c) ==
    /\ AtStart(c, "getUsdtBalance")
    /\ Await(c, Top(c), "balanceOf", "balanceOf")
    /\ Frozen

\* variant of getUsdtBalance_Resume: a failed token-balance read is issued once more
getUsdtBalance_Resume_Retries(c) ==
    /\ Resumed(c, "getUsdtBalance", "balanceOf")
    /\ IF res[c].kind = "return"
        THEN Finish(c, "return", formatUnits(res[c].val, UsdtDecimals))
        ELSE IF Len(trace[c]) = 1 \/ trace[c][Len(trace[c]) - 1].read # "balanceOf"
            THEN Await(c, Top(c), "balanceOf", "balanceOf")
            ELSE Finish(c, "throw", Error("Failed to get USDT balance: ", res[c].val))
    /\ Frozen

getUsdtBalance_Resume(c) ==
    /\ Resumed(c, "getUsdtBalance", "balanceOf")
    /\ IF res[c].kind = "return"
        THEN Finish(c, "return", formatUnits(res[c].val, UsdtDecimals))
        ELSE Finish(c, "throw", Error("Failed to get USDT balance: ", res[c].val))
    /\ Frozen

hasSufficientBalance_Start(c) ==
    /\ AtStart(c, "hasSufficientBalance")
    /\ Await(c, Top(c), "getBalance", "getBalance")
    /\ Frozen

\* variant of hasSufficientBalance_Resume: balance > threshold instead of >=
hasSufficientBalance_Resume_Strict(c) ==
    /\ Resumed(c, "hasSufficientBalance", "getBalance")
    /\ IF res[c].kind = "return"
        THEN /\ Finish(c, "return", BigIntGeq(res[c].val, MIN_BALANCE_REQUIRED)
                                       /\ res[c].val # MIN_BALANCE_REQUIRED)
             /\ UNCHANGED console
        ELSE /\ Finish(c, "return", FALSE)
             /\ Say(c, <<LineWith(<<"Error checking balance:">>, res[c].val)>>)
    /\ Untouched

hasSufficientBalance_Resume(c) ==
    /\ Resumed(c, "hasSufficientBalance", "getBalance")
    /\ IF res[c].kind = "return"
        THEN /\ Finish(c, "return", BigIntGeq(res[c].val, MIN_BALANCE_REQUIRED))
             /\ UNCHANGED console
        ELSE /\ Finish(c, "return", FALSE)
             /\ Say(c, <<LineWith(<<"Error checking balance:">>, res[c].val)>>)
    /\ Untouched

(***************************************************************************)
(* estimateTransactionCost: declared without parameters, so an argument    *)
(* passed by the caller is not read                                        *)
(***************************************************************************)
estimateTransactionCost_Start(c) ==
    /\ AtStart(c, "estimateTransactionCost")
    /\ Await(c, Top(c), "getFeeData", "getFeeData")
    /\ Frozen

\* variant of GasEstimate: the cost is computed from the gas price in whole gwei
GasEstimate_WholeGwei(feeData) ==
    LET gasPrice      == feeData.gasPrice
        wholeGwei     == IF Len(gasPrice) > GweiDecimals
                            THEN SubSeq(gasPrice, 1, Len(gasPrice) - GweiDecimals) \o Zeros(GweiDecimals)
                            ELSE <<0>>
        estimatedCost == BigIntMul(wholeGwei, GAS_LIMIT)
    IN  [ gasLimit         |-> GAS_LIMIT,
          gasPrice         |-> formatUnits(gasPrice, GweiDecimals),
          estimatedCostETH |-> formatEther(estimatedCost),
          estimatedCostWei |-> BigIntToString(estimatedCost) ]

GasEstimate(feeData) ==
    LET gasPrice == feeData.gasPrice
    IN  \* estimatedCost is bound to the product, computed once
        CHOOSE estimate \in
            { [ gasLimit         |-> GAS_LIMIT,
                gasPrice         |-> formatUnits(gasPrice, GweiDecimals),
                estimatedCostETH |-> formatEther(estimatedCost),
                estimatedCostWei |-> BigIntToString(estimatedCost) ] :
              estimatedCost \in {BigIntMul(gasPrice, GAS_LIMIT)} } : TRUE

\* variant of estimateTransactionCost_Resume: a gasLimit parameter, defaulting to
\* CONFIG.GAS_LIMIT, is read and used
estimateTransactionCost_Resume_WithParam(c) ==
    /\ Resumed(c, "estimateTransactionCost", "getFeeData")
    /\ LET gasLimit      == IF Len(Top(c).args) = 0 THEN GAS_LIMIT ELSE Top(c).args[1]
           gasPrice      == res[c].val.gasPrice
           estimatedCost == BigIntMul(gasPrice, gasLimit)
       IN  IF res[c].kind = "return"
            THEN Finish(c, "return",
                    [ gasLimit         |-> gasLimit,
                      gasPrice         |-> formatUnits(gasPrice, GweiDecimals),
                      estimatedCostETH |-> formatEther(estimatedCost),
                      estimatedCostWei |-> BigIntToString(estimatedCost) ])
            ELSE Finish(c, "throw", Error("Failed to estimate transaction cost: ", res[c].val))
    /\ Frozen

\* variant of estimateTransactionCost_Resume: the estimate is computed from the fee
\* data the provider holds when the call resumes, not from what the call's read returned
estimateTransactionCost_Resume_LatestFee(c) ==
    /\ Resumed(c, "estimateTransactionCost", "getFeeData")
    /\ IF res[c].kind = "return"
        THEN Finish(c, "return", GasEstimate(ReadValue("getFeeData")))
        ELSE Finish(c, "throw", Error("Failed to estimate transaction cost: ", res[c].val))
    /\ Frozen

estimateTransactionCost_Resume(c) ==
    /\ Resumed(c, "estimateTransactionCost", "getFeeData")
    /\ IF res[c].kind = "return"
        THEN Finish(c, "return", GasEstimate(res[c].val))
        ELSE Finish(c, "throw", Error("Failed to estimate transaction cost: ", res[c].val))
    /\ Frozen

(***************************************************************************)
(* validateWallet                                                          *)
(***************************************************************************)
\* obj[k] = v on a JavaScript object
Put(obj, k, v) == [x \in DOMAIN obj \cup {k} |-> IF x = k THEN v ELSE obj[x]]

EmptyObject == [x \in {} |-> <<>>]

NewValidation == [isValid |-> TRUE, errors |-> <<>>, warnings |-> <<>>, info |-> EmptyObject]

\* parseFloat(ethBalance) < 0.01 for a string formatEther returned. The string has at
\* most 18 fractional digits, and no such decimal lies between 0.01 and the double
\* nearest to it or rounds across it, so the comparison of doubles is the comparison
\* of the decimals: the whole part and the first two fractional digits are zero.
\* variant of LowEthBalance: the threshold is one native unit
LowEthBalance_BelowOne(ethBalance) ==
    SubSeq(ethBalance, 1, PointAt(ethBalance) - 1) = <<"0">>

LowEthBalance(ethBalance) ==
    LET p     == PointAt(ethBalance)
        whole == SubSeq(ethBalance, 1, p - 1)
        frac  == SubSeq(ethBalance, p + 1, Len(ethBalance))
    IN  /\ whole = <<"0">>
        /\ frac[1] = "0"
        /\ (Len(frac) = 1 \/ frac[2] = "0")

\* variant of Invalid: the catch clause records the message and leaves isValid set
Invalid_KeepsValid(validation, message) ==
    [validation EXCEPT !.errors = Append(@, message)]

\* the catch clause of validateWallet
Invalid(validation, message) ==
    [validation EXCEPT !.isValid = FALSE, !.errors = Append(@, message)]

validateWallet_Start(c) ==
    /\ AtStart(c, "validateWallet")
    /\ Await(c, [Top(c) EXCEPT !.loc = NewValidation], "getNetwork", "getNetwork")
    /\ Frozen

validateWallet_Network(c) ==
    /\ Resumed(c, "validateWallet", "getNetwork")
    /\ LET validation == Top(c).loc
           network    == res[c].val
       IN  IF res[c].kind = "throw"
            THEN Finish(c, "return", Invalid(validation, res[c].val))
            ELSE LET info1 == Put(validation.info, "network", network.name)
                     info2 == Put(info1, "chainId", BigIntToString(network.chainId))
                     info3 == Put(info2, "walletAddress", session.wallet[1].address)
                 IN  AwaitCall(c, [Top(c) EXCEPT !.loc = [validation EXCEPT !.info = info3]],
                               "getEthBalance", "getEthBalance", <<>>, <<>>)
    /\ Frozen

\* variant of validateWallet_EthBalance: the native-balance failure escapes the try
validateWallet_EthBalance_Rethrows(c) ==
    /\ Resumed(c, "validateWallet", "getEthBalance")
    /\ LET validation == Top(c).loc
           ethBalance == res[c].val
       IN  IF res[c].kind = "throw"
            THEN Finish(c, "throw", res[c].val)
            ELSE AwaitCall(c, [Top(c) EXCEPT !.loc = [validation EXCEPT
                                    !.info = Put(@, "ethBalance", ethBalance)]],
                           "getUsdtBalance", "getUsdtBalance", <<>>, <<>>)
    /\ Frozen

\* variant of validateWallet_EthBalance: a failed native-balance read empties info
validateWallet_EthBalance_ResetsInfo(c) ==
    /\ Resumed(c, "validateWallet", "getEthBalance")
    /\ LET validation == Top(c).loc
           ethBalance == res[c].val
       IN  IF res[c].kind = "throw"
            THEN Finish(c, "return",
                        [Invalid(validation, res[c].val) EXCEPT !.info = EmptyObject])
            ELSE LET v1 == [validation EXCEPT !.info = Put(@, "ethBalance", ethBalance)]
                     v2 == IF LowEthBalance(ethBalance)
                            THEN [v1 EXCEPT !.warnings = Append(@,
                                    "Low ETH balance - may not be sufficient for transactions")]
                            ELSE v1
                 IN  AwaitCall(c, [Top(c) EXCEPT !.loc = v2],
                               "getUsdtBalance", "getUsdtBalance", <<>>, <<>>)
    /\ Frozen

validateWallet_EthBalance(c) ==
    /\ Resumed(c, "validateWallet", "getEthBalance")
    /\ LET validation == Top(c).loc
           ethBalance == res[c].val
       IN  IF res[c].kind = "throw"
            THEN Finish(c, "return", Invalid(validation, res[c].val))
            ELSE LET v1 == [validation EXCEPT !.info = Put(@, "ethBalance", ethBalance)]
                     v2 == IF LowEthBalance(ethBalance)
                            THEN [v1 EXCEPT !.warnings = Append(@,
                                    "Low ETH balance - may not be sufficient for transactions")]
                            ELSE v1
                 IN  AwaitCall(c, [Top(c) EXCEPT !.loc = v2],
                               "getUsdtBalance", "getUsdtBalance", <<>>, <<>>)
    /\ Frozen

\* variant of validateWallet_UsdtBalance: no inner try, the token read is a hard failure
validateWallet_UsdtBalance_Hard(c) ==
    /\ Resumed(c, "validateWallet", "getUsdtBalance")
    /\ LET validation == Top(c).loc
       IN  IF res[c].kind = "return"
            THEN Finish(c, "return",
                        [validation EXCEPT !.info = Put(@, "usdtBalance", res[c].val)])
            ELSE Finish(c, "return",
                        [validation EXCEPT !.isValid = FALSE, !.errors = Append(@, res[c].val)])
    /\ Frozen

validateWallet_UsdtBalance(c) ==
    /\ Resumed(c, "validateWallet", "getUsdtBalance")
    /\ LET validation == Top(c).loc
       IN  IF res[c].kind = "return"
            THEN Finish(c, "return",
                        [validation EXCEPT !.info = Put(@, "usdtBalance", res[c].val)])
            ELSE Finish(c, "return",
                        [validation EXCEPT !.warnings = Append(@, "Could not retrieve USDT balance")])
    /\ Frozen

(***************************************************************************)
(* simulateFlashGeneration                                                 *)
(***************************************************************************)
\* Array.prototype.join on messages
RECURSIVE Join(_, _)
Join(list, sep) ==
    IF Len(list) = 0 THEN <<>>
    ELSE IF Len(list) = 1 THEN list[1]
    ELSE list[1] \o <<sep>> \o Join(Tail(list), sep)

\* the step descriptions, in the order the code appends them
StepValidate == <<"Validating wallet configuration...">>
StepBalances == <<"Checking current balances...">>
StepEstimate == <<"Estimating transaction costs...">>
StepSimulate(amt) == <<"Simulating flash generation of ", amt, " USDT...">>
StepComplete == <<"Flash generation simulation completed successfully">>

\* variant of AmountParam: the configured amount is used whatever the caller passes
AmountParam_Configured(args) == FLASH_AMOUNT

\* the parameter amount = CONFIG.FLASH_AMOUNT
AmountParam(args) == IF Len(args) = 0 THEN FLASH_AMOUNT ELSE args[1]

NewSimulation(amt, now) ==
    [ success     |-> FALSE,
      amount      |-> amt,
      timestamp   |-> now,
      steps       |-> <<>>,
      gasEstimate |-> <<>>,
      error       |-> <<>> ]

PushStep(simulation, step) == [simulation EXCEPT !.steps = Append(@, step)]

\* variant of SimulationFailed: the catch clause returns a result without the step log
SimulationFailed_DropsSteps(c, simulation, message) ==
    /\ Finish(c, "return", [simulation EXCEPT !.error = <<message>>, !.steps = <<>>])
    /\ Say(c, <<LineWith(<<"Simulation failed:">>, message)>>)

\* variant of SimulationFailed: the result object is shared by the calls in flight,
\* so the catch clause of one call writes its error into the others' results
SimulationFailed_SharedResult(c, simulation, message) ==
    /\ stack' = [d \in CallIds |->
                    IF d = c THEN SubSeq(stack[c], 1, Len(stack[c]) - 1)
                    ELSE IF Len(stack[d]) >= 1 /\ stack[d][1].fn = "simulateFlashGeneration"
                                               /\ stack[d][1].pc # "start"
                        THEN [stack[d] EXCEPT ![1].loc.error = <<message>>]
                        ELSE stack[d]]
    /\ res' = [res EXCEPT ![c] = [kind |-> "return", val |-> [simulation EXCEPT !.error = <<message>>]]]
    /\ UNCHANGED trace
    /\ Say(c, <<LineWith(<<"Simulation failed:">>, message)>>)

\* the catch clause of simulateFlashGeneration, and the return after it
SimulationFailed(c, simulation, message) ==
    /\ Finish(c, "return", [simulation EXCEPT !.error = <<message>>])
    /\ Say(c, <<LineWith(<<"Simulation failed:">>, message)>>)

simulateFlashGeneration_Start(c) ==
    /\ AtStart(c, "simulateFlashGeneration")
    /\ Say(c, <<Line(<<"Starting Flash USDT Generation Simulation...">>)>>)
    /\ \E now \in Timestamps :
        LET simulation == NewSimulation(AmountParam(Top(c).args), now)
        IN  AwaitCall(c, [Top(c) EXCEPT !.loc = PushStep(simulation, StepValidate)],
                      "validateWallet", "validateWallet", <<>>, <<>>)
    /\ Untouched

\* variant of simulateFlashGeneration_Validated: the report's isValid is not looked at
simulateFlashGeneration_Validated_Unchecked(c) ==
    /\ Resumed(c, "simulateFlashGeneration", "validateWallet")
    /\ AwaitCall(c, [Top(c) EXCEPT !.loc = PushStep(@, StepBalances)],
                 "getEthBalance", "getEthBalance", <<>>, <<>>)
    /\ Frozen

simulateFlashGeneration_Validated(c) ==
    /\ Resumed(c, "simulateFlashGeneration", "validateWallet")
    /\ LET simulation == Top(c).loc
           validation == res[c].val
       IN  IF res[c].kind = "throw"
            THEN SimulationFailed(c, simulation, res[c].val)
            ELSE IF ~validation.isValid
            THEN SimulationFailed(c, simulation,
                    Error("Wallet validation failed: ", Join(validation.errors, ", ")))
            ELSE /\ AwaitCall(c, [Top(c) EXCEPT !.loc = PushStep(simulation, StepBalances)],
                              "getEthBalance", "getEthBalance", <<>>, <<>>)
                 /\ UNCHANGED console
    /\ Untouched

simulateFlashGeneration_EthBalance(c) ==
    /\ Resumed(c, "simulateFlashGeneration", "getEthBalance")
    /\ IF res[c].kind = "throw"
        THEN SimulationFailed(c, Top(c).loc, res[c].val)
        ELSE /\ AwaitCall(c, [Top(c) EXCEPT !.aux = <<res[c].val>>],
                          "getUsdtBalance", "getUsdtBalance", <<>>, <<>>)
             /\ UNCHANGED console
    /\ Untouched

\* variant of simulateFlashGeneration_UsdtBalance: a low native balance is an error
simulateFlashGeneration_UsdtBalance_NeedsFunds(c) ==
    /\ Resumed(c, "simulateFlashGeneration", "getUsdtBalance")
    /\ LET ethBalance  == Top(c).aux[1]
           usdtBalance == res[c].val
       IN  IF res[c].kind = "throw"
            THEN SimulationFailed(c, Top(c).loc, res[c].val)
            ELSE IF LowEthBalance(ethBalance)
            THEN SimulationFailed(c, Top(c).loc, <<"Insufficient ETH balance">>)
            ELSE /\ Say(c, << Line(<<"Current ETH Balance: ">> \o ethBalance \o <<" ETH">>),
                              Line(<<"Current USDT Balance: ">> \o usdtBalance \o <<" USDT">>) >>)
                 /\ AwaitCall(c, [Top(c) EXCEPT !.loc = PushStep(@, StepEstimate)],
                              "estimateTransactionCost", "estimateTransactionCost", <<>>, <<>>)
    /\ Untouched

\* variant of simulateFlashGeneration_UsdtBalance: a failed token-balance read is
\* tolerated as in validateWallet, and the simulation goes on to the estimate
simulateFlashGeneration_UsdtBalance_Soft(c) ==
    /\ Resumed(c, "simulateFlashGeneration", "getUsdtBalance")
    /\ LET ethBalance  == Top(c).aux[1]
           usdtBalance == IF res[c].kind = "throw" THEN <<"unknown">> ELSE res[c].val
       IN  /\ Say(c, << Line(<<"Current ETH Balance: ">> \o ethBalance \o <<" ETH">>),
                        Line(<<"Current USDT Balance: ">> \o usdtBalance \o <<" USDT">>) >>)
           /\ AwaitCall(c, [Top(c) EXCEPT !.loc = PushStep(@, StepEstimate)],
                        "estimateTransactionCost", "estimateTransactionCost", <<>>, <<>>)
    /\ Untouched

simulateFlashGeneration_UsdtBalance(c) ==
    /\ Resumed(c, "simulateFlashGeneration", "getUsdtBalance")
    /\ LET ethBalance  == Top(c).aux[1]
           usdtBalance == res[c].val
       IN  IF res[c].kind = "throw"
            THEN SimulationFailed(c, Top(c).loc, res[c].val)
            ELSE /\ Say(c, << Line(<<"Current ETH Balance: ">> \o ethBalance \o <<" ETH">>),
                              Line(<<"Current USDT Balance: ">> \o usdtBalance \o <<" USDT">>) >>)
                 /\ AwaitCall(c, [Top(c) EXCEPT !.loc = PushStep(@, StepEstimate)],
                              "estimateTransactionCost", "estimateTransactionCost", <<>>, <<>>)
    /\ Untouched

\* variant of simulateFlashGeneration_Estimated: completion is logged before the delay
simulateFlashGeneration_Estimated_CompletesEarly(c) ==
    /\ Resumed(c, "simulateFlashGeneration", "estimateTransactionCost")
    /\ LET simulation == Top(c).loc
       IN  IF res[c].kind = "throw"
            THEN SimulationFailed(c, simulation, res[c].val)
            ELSE LET s1 == [simulation EXCEPT !.gasEstimate = <<res[c].val>>]
                     s2 == PushStep(PushStep(s1, StepSimulate(simulation.amount)), StepComplete)
                 IN  /\ Await(c, [Top(c) EXCEPT !.loc = s2], "delay", "delay")
                     /\ UNCHANGED console
    /\ Untouched

simulateFlashGeneration_Estimated(c) ==
    /\ Resumed(c, "simulateFlashGeneration", "estimateTransactionCost")
    /\ LET simulation == Top(c).loc
       IN  IF res[c].kind = "throw"
            THEN SimulationFailed(c, simulation, res[c].val)
            ELSE LET s1 == [simulation EXCEPT !.gasEstimate = <<res[c].val>>]
                     s2 == PushStep(s1, StepSimulate(simulation.amount))
                 IN  /\ Await(c, [Top(c) EXCEPT !.loc = s2], "delay", "delay")
                     /\ UNCHANGED console
    /\ Untouched

\* variant of simulateFlashGeneration_Delayed: the call waits for the timer again
simulateFlashGeneration_Delayed_Rearms(c) ==
    /\ Resumed(c, "simulateFlashGeneration", "delay")
    /\ trace' = SetLast(c, "pending", <<>>)
    /\ res' = [res EXCEPT ![c] = NoRes]
    /\ UNCHANGED stack
    /\ Frozen

\* variant of simulateFlashGeneration_Delayed: the completion step is pushed and
\* success is left false
simulateFlashGeneration_Delayed_Unmarked(c) ==
    /\ Resumed(c, "simulateFlashGeneration", "delay")
    /\ LET s1 == PushStep(Top(c).loc, StepComplete)
       IN  /\ Finish(c, "return", s1)
           /\ Say(c, << Line(<<"Successfully simulated flash generation of ", s1.amount, " USDT">>),
                        LineWith(<<"Simulation Details:">>, s1) >>)
    /\ Untouched

simulateFlashGeneration_Delayed(c) ==
    /\ Resumed(c, "simulateFlashGeneration", "delay")
    /\ LET s1 == PushStep(Top(c).loc, StepComplete)
           s2 == [s1 EXCEPT !.success = TRUE]
       IN  /\ Finish(c, "return", s2)
           /\ Say(c, << Line(<<"Successfully simulated flash generation of ", s2.amount, " USDT">>),
                        LineWith(<<"Simulation Details:">>, s2) >>)
    /\ Untouched

(***************************************************************************)
(* getContractInfo, getNetworkStats                                        *)
(***************************************************************************)
getContractInfo_Start(c) ==
    /\ AtStart(c, "getContractInfo")
    /\ Await(c, [Top(c) EXCEPT !.loc = EmptyObject], "name", "name")
    /\ Frozen

getContractInfo_Name(c) ==
    /\ Resumed(c, "getContractInfo", "name")
    /\ IF res[c].kind = "throw"
        THEN Finish(c, "throw", Error("Failed to get contract info: ", res[c].val))
        ELSE Await(c, [Top(c) EXCEPT !.loc = Put(@, "name", res[c].val)], "symbol", "symbol")
    /\ Frozen

getContractInfo_Symbol(c) ==
    /\ Resumed(c, "getContractInfo", "symbol")
    /\ IF res[c].kind = "throw"
        THEN Finish(c, "throw", Error("Failed to get contract info: ", res[c].val))
        ELSE Await(c, [Top(c) EXCEPT !.loc = Put(@, "symbol", res[c].val)], "decimals", "decimals")
    /\ Frozen

getContractInfo_Decimals(c) ==
    /\ Resumed(c, "getContractInfo", "decimals")
    /\ IF res[c].kind = "throw"
        THEN Finish(c, "throw", Error("Failed to get contract info: ", res[c].val))
        ELSE Finish(c, "return",
                    [ address  |-> USDT_CONTRACT_ADDRESS,
                      name     |-> Top(c).loc["name"],
                      symbol   |-> Top(c).loc["symbol"],
                      decimals |-> BigIntToString(res[c].val) ])
    /\ Frozen

getNetworkStats_Start(c) ==
    /\ AtStart(c, "getNetworkStats")
    /\ Await(c, [Top(c) EXCEPT !.loc = EmptyObject], "getBlockNumber", "getBlockNumber")
    /\ Frozen

getNetworkStats_BlockNumber(c) ==
    /\ Resumed(c, "getNetworkStats", "getBlockNumber")
    /\ IF res[c].kind = "throw"
        THEN Finish(c, "throw", Error("Failed to get network stats: ", res[c].val))
        ELSE Await(c, [Top(c) EXCEPT !.loc = Put(@, "blockNumber", res[c].val)],
                   "getFeeData", "getFeeData")
    /\ Frozen

getNetworkStats_FeeData(c) ==
    /\ Resumed(c, "getNetworkStats", "getFeeData")
    /\ IF res[c].kind = "throw"
        THEN Finish(c, "throw", Error("Failed to get network stats: ", res[c].val))
        ELSE Await(c, [Top(c) EXCEPT !.loc = Put(@, "feeData", res[c].val)],
                   "getNetwork", "getNetwork")
    /\ Frozen

\* the truth value JavaScript gives an optional BigInt: null and 0n are falsy
Truthy(opt) == Len(opt) > 0 /\ opt[1] # <<0>>

getNetworkStats_Network(c) ==
    /\ Resumed(c, "getNetworkStats", "getNetwork")
    /\ LET feeData == Top(c).loc["feeData"]
           network == res[c].val
       IN  IF res[c].kind = "throw"
            THEN Finish(c, "throw", Error("Failed to get network stats: ", res[c].val))
            ELSE Finish(c, "return",
                    [ currentBlock |-> Top(c).loc["blockNumber"],
                      gasPrice     |-> formatUnits(feeData.gasPrice, GweiDecimals),
                      maxFeePerGas |-> IF Truthy(feeData.maxFeePerGas)
                                        THEN <<formatUnits(feeData.maxFeePerGas[1], GweiDecimals)>>
                                        ELSE <<>>,
                      networkName  |-> network.name,
                      chainId      |-> BigIntToString(network.chainId) ])
    /\ Frozen

(***************************************************************************)
(* The caller: operations invoked on the session                           *)
(***************************************************************************)
\* an async function is called: its frame is entered
Enter(c, op, args) ==
    /\ Idle(c)
    /\ call' = [call EXCEPT ![c] = [op |-> op, args |-> args]]
    /\ stack' = [stack EXCEPT ![c] = <<Frame(op, args, <<>>)>>]
    /\ trace' = [trace EXCEPT ![c] = <<>>]
    /\ console' = [console EXCEPT ![c] = <<>>]
    /\ UNCHANGED <<ledger, session, res, txs, scriptRuns, runner>>

\* an async method of the session is called
Invoke(c, op, args) == HasSession /\ Enter(c, op, args)

\* a synchronous function is called, writes the lines and returns v
ReturnSync(c, op, args, v, lines) ==
    /\ Idle(c)
    /\ call' = [call EXCEPT ![c] = [op |-> op, args |-> args]]
    /\ res' = [res EXCEPT ![c] = [kind |-> "return", val |-> v]]
    /\ trace' = [trace EXCEPT ![c] = <<>>]
    /\ console' = [console EXCEPT ![c] = lines]
    /\ UNCHANGED <<ledger, session, stack, txs, scriptRuns, runner>>

\* a synchronous method of the session is called
InvokeSync(c, op, v, lines) == HasSession /\ ReturnSync(c, op, <<>>, v, lines)

Call_getWalletAddress(c) == InvokeSync(c, "getWalletAddress", session.wallet[1].address, <<>>)

\* variant of Call_cleanup: the contract binding is dropped
Call_cleanup_DropsContract(c) ==
    /\ HasSession
    /\ Idle(c)
    /\ call' = [call EXCEPT ![c] = [op |-> "cleanup", args |-> <<>>]]
    /\ res' = [res EXCEPT ![c] = [kind |-> "return", val |-> <<>>]]
    /\ trace' = [trace EXCEPT ![c] = <<>>]
    /\ console' = [console EXCEPT ![c] = <<Line(<<"Cleaning up resources...">>)>>]
    /\ session' = [session EXCEPT !.usdtContract = <<>>]
    /\ UNCHANGED <<ledger, stack, txs, scriptRuns, runner>>

\* cleanup() only writes a line to the console
Call_cleanup(c) ==
    InvokeSync(c, "cleanup", <<>>, <<Line(<<"Cleaning up resources...">>)>>)

Call_getEthBalance(c) == Invoke(c, "getEthBalance", <<>>)

Call_getUsdtBalance(c) == Invoke(c, "getUsdtBalance", <<>>)

Call_hasSufficientBalance(c) == Invoke(c, "hasSufficientBalance", <<>>)

Call_validateWallet(c) == Invoke(c, "validateWallet", <<>>)

Call_simulateFlashGeneration(c) ==
    \E args \in Amounts : Invoke(c, "simulateFlashGeneration", args)

Call_estimateTransactionCost(c) ==
    \E args \in GasLimitArgs : Invoke(c, "estimateTransactionCost", args)

Call_getContractInfo(c) == Invoke(c, "getContractInfo", <<>>)

Call_getNetworkStats(c) == Invoke(c, "getNetworkStats", <<>>)

\* the caller takes the result of a finished call
Collect(c) ==
    /\ Done(c)
    /\ call' = [call EXCEPT ![c] = NoCall]
    /\ res' = [res EXCEPT ![c] = NoRes]
    /\ trace' = [trace EXCEPT ![c] = <<>>]
    /\ console' = [console EXCEPT ![c] = <<>>]
    /\ UNCHANGED <<ledger, session, stack, txs, scriptRuns, runner>>

(***************************************************************************)
(* Construction, the validators, and main()                                *)
(***************************************************************************)
\* new FlashUSDTGenerator(privateKey, infuraApiKey): the constructor assigns the
\* fields and calls initialize(); when that throws the caller gets no object
Call_new(c) ==
    /\ Idle(c)
    /\ \E privateKey \in Secrets, infuraApiKey \in Credentials :
        LET made == initialize(privateKey, infuraApiKey, NETWORK)
        IN  /\ call' = [call EXCEPT ![c] = [op |-> "new FlashUSDTGenerator",
                                             args |-> <<privateKey, infuraApiKey>>]]
            /\ IF made.ok
                THEN /\ session' = made.session
                     /\ res' = [res EXCEPT ![c] = [kind |-> "return", val |-> <<>>]]
                     /\ console' = [console EXCEPT ![c] =
                            <<Line(<<"Flash USDT Generator initialized successfully">>)>>]
                ELSE /\ session' = session
                     /\ res' = [res EXCEPT ![c] = [kind |-> "throw", val |-> made.message]]
                     /\ console' = [console EXCEPT ![c] = <<>>]
    /\ trace' = [trace EXCEPT ![c] = <<>>]
    /\ UNCHANGED <<ledger, stack, txs, scriptRuns, runner>>

Call_validatePrivateKey(c) ==
    \E privateKey \in Secrets :
        ReturnSync(c, "validatePrivateKey", <<privateKey>>, validatePrivateKey(privateKey), <<>>)

Call_validateInfuraApiKey(c) ==
    \E apiKey \in ApiKeyInputs :
        ReturnSync(c, "validateInfuraApiKey", <<apiKey>>, validateInfuraApiKey(apiKey), <<>>)

Call_formatUSDTAmount(c) ==
    \E value \in AmountInputs :
        \E formatted \in formatUSDTAmount(value) :
            ReturnSync(c, "formatUSDTAmount", <<value>>, formatted, <<>>)

\* main() is run with the two constants at its head
Call_main(c) ==
    \E privateKey \in MainKeys, infuraApiKey \in MainApiKeys :
        Enter(c, "main", <<privateKey, infuraApiKey>>)

\* console.error(text); process.exit(1)
Exit(c, text) ==
    /\ Finish(c, "exit", <<1>>)
    /\ Say(c, <<Line(<<"Flash USDT Generator - Starting...">>), Line(<<text>>)>>)

\* the catch clause of main
MainFailed(c, message) ==
    /\ Finish(c, "exit", <<1>>)
    /\ Say(c, <<LineWith(<<"Error in main execution:">>, message)>>)

main_Start(c) ==
    /\ AtStart(c, "main")
    /\ LET privateKey   == Top(c).args[1]
           infuraApiKey == Top(c).args[2]
           made         == initialize(privateKey, infuraApiKey, "mainnet")
       IN  IF privateKey = CLIENT_PRIVATE_KEY \/ infuraApiKey = INFURA_API_KEY
            THEN /\ Exit(c, "Please replace CLIENT_PRIVATE_KEY and INFURA_API_KEY with actual values")
                 /\ UNCHANGED session
            ELSE IF ~validatePrivateKey(privateKey)
            THEN /\ Exit(c, "Invalid private key format")
                 /\ UNCHANGED session
            ELSE IF ~validateInfuraApiKey(JsString(infuraApiKey))
            THEN /\ Exit(c, "Invalid Infura API key format")
                 /\ UNCHANGED session
            ELSE IF ~made.ok
            THEN /\ Finish(c, "exit", <<1>>)
                 /\ Say(c, << Line(<<"Flash USDT Generator - Starting...">>),
                              LineWith(<<"Error in main execution:">>, made.message) >>)
                 /\ UNCHANGED session
            ELSE /\ session' = made.session
                 /\ Say(c, << Line(<<"Flash USDT Generator - Starting...">>),
                              Line(<<"Flash USDT Generator initialized successfully">>),
                              Line(<<"Wallet Address: ">> \o made.session.wallet[1].address) >>)
                 /\ AwaitCall(c, Top(c), "validateWallet", "validateWallet", <<>>, <<>>)
    /\ UNCHANGED <<ledger, call, txs, scriptRuns, runner>>

main_Validated(c) ==
    /\ Resumed(c, "main", "validateWallet")
    /\ IF res[c].kind = "throw"
        THEN MainFailed(c, res[c].val)
        ELSE /\ Say(c, <<LineWith(<<"Wallet Validation:">>, res[c].val)>>)
             /\ AwaitCall(c, Top(c), "getNetworkStats", "getNetworkStats", <<>>, <<>>)
    /\ Untouched

main_NetworkStats(c) ==
    /\ Resumed(c, "main", "getNetworkStats")
    /\ IF res[c].kind = "throw"
        THEN MainFailed(c, res[c].val)
        ELSE /\ Say(c, <<LineWith(<<"Network Statistics:">>, res[c].val)>>)
             /\ AwaitCall(c, Top(c), "getContractInfo", "getContractInfo", <<>>, <<>>)
    /\ Untouched

main_ContractInfo(c) ==
    /\ Resumed(c, "main", "getContractInfo")
    /\ IF res[c].kind = "throw"
        THEN MainFailed(c, res[c].val)
        ELSE /\ Say(c, <<LineWith(<<"USDT Contract Info:">>, res[c].val)>>)
             /\ AwaitCall(c, Top(c), "simulateFlashGeneration", "simulateFlashGeneration",
                          <<FLASH_AMOUNT>>, <<>>)
    /\ Untouched

\* the result is displayed, cleanup() is called and main returns
main_Simulated(c) ==
    /\ Resumed(c, "main", "simulateFlashGeneration")
    /\ IF res[c].kind = "throw"
        THEN MainFailed(c, res[c].val)
        ELSE /\ Finish(c, "return", <<>>)
             /\ Say(c, << IF res[c].val.success
                            THEN Line(<<"Flash USDT generation simulation completed successfully!">>)
                            ELSE LineWith(<<"Flash USDT generation simulation failed:">>,
                                          res[c].val.error[1]),
                          Line(<<"Cleaning up resources...">>) >>)
    /\ Untouched

(***************************************************************************)
(* The stand-alone script: generateFlashUSDT() submits contract.transfer.  *)
(* The transaction moves `amount` tokens from the wallet to `recipient`    *)
(* when the wallet holds them; otherwise, or on a transport failure, the   *)
(* call rejects and nothing is submitted. The native-coin fee the          *)
(* transaction pays is not modelled.                                       *)
(***************************************************************************)
generateFlashUSDT ==
    /\ scriptRuns < MaxScriptRuns
    /\ scriptRuns' = scriptRuns + 1
    /\ \/ /\ ledger.usdt >= amount
          /\ ledger' = [ledger EXCEPT !.usdt = @ - amount, !.recipientUsdt = @ + amount]
          /\ txs' = Append(txs, [to |-> USDT_CONTRACT_ADDRESS, method |-> "transfer",
                                 args |-> <<recipient, amount>>])
       \/ UNCHANGED <<ledger, txs>>
    /\ UNCHANGED <<session, call, stack, res, trace, console, runner>>

(***************************************************************************)
(* Specification: one caller, awaiting each call before making the next    *)
(***************************************************************************)
Step(c) ==
    \/ Call_getWalletAddress(c)
    \/ Call_cleanup(c)
    \/ Call_getEthBalance(c)
    \/ Call_getUsdtBalance(c)
    \/ Call_hasSufficientBalance(c)
    \/ Call_validateWallet(c)
    \/ Call_simulateFlashGeneration(c)
    \/ Call_estimateTransactionCost(c)
    \/ Call_getContractInfo(c)
    \/ Call_getNetworkStats(c)
    \/ Collect(c)
    \/ ReadSucceeds(c)
    \/ ReadFails(c)
    \/ TimerFires(c)
    \/ getEthBalance_Start(c)
    \/ getEthBalance_Resume(c)
    \/ getUsdtBalance_Start(c)
    \/ getUsdtBalance_Resume(c)
    \/ hasSufficientBalance_Start(c)
    \/ hasSufficientBalance_Resume(c)
    \/ estimateTransactionCost_Start(c)
    \/ estimateTransactionCost_Resume(c)
    \/ validateWallet_Start(c)
    \/ validateWallet_Network(c)
    \/ validateWallet_EthBalance(c)
    \/ validateWallet_UsdtBalance(c)
    \/ simulateFlashGeneration_Start(c)
    \/ simulateFlashGeneration_Validated(c)
    \/ simulateFlashGeneration_EthBalance(c)
    \/ simulateFlashGeneration_UsdtBalance(c)
    \/ simulateFlashGeneration_Estimated(c)
    \/ simulateFlashGeneration_Delayed(c)
    \/ getContractInfo_Start(c)
    \/ getContractInfo_Name(c)
    \/ getContractInfo_Symbol(c)
    \/ getContractInfo_Decimals(c)
    \/ getNetworkStats_Start(c)
    \/ getNetworkStats_BlockNumber(c)
    \/ getNetworkStats_FeeData(c)
    \/ getNetworkStats_Network(c)

Next ==
    \/ \E c \in Sequential : Step(c)
    \/ generateFlashUSDT

Spec == Init /\ [][Next]_vars

(***************************************************************************)
(* Specification: the life of a session. The caller starts without one,    *)
(* validates keys and credentials, constructs sessions, calls their        *)
(* methods, or runs main(). A call made after main() called process.exit   *)
(* belongs to another run.                                                 *)
(***************************************************************************)
LifecycleStep(c) ==
    \/ Call_new(c)
    \/ Call_validatePrivateKey(c)
    \/ Call_validateInfuraApiKey(c)
    \/ Call_formatUSDTAmount(c)
    \/ Call_main(c)
    \/ main_Start(c)
    \/ main_Validated(c)
    \/ main_NetworkStats(c)
    \/ main_ContractInfo(c)
    \/ main_Simulated(c)

InitLifecycle ==
    /\ ledger = Ledger(DocEth, DocUsdt, DocGasPrice, DocMaxFee)
    /\ session = NoSession
    /\ call = [c \in CallIds |-> NoCall]
    /\ stack = [c \in CallIds |-> <<>>]
    /\ res = [c \in CallIds |-> NoRes]
    /\ trace = [c \in CallIds |-> <<>>]
    /\ console = [c \in CallIds |-> <<>>]
    /\ txs = <<>>
    /\ scriptRuns = 0
    /\ runner = NewTestRunner

NextLifecycle == \E c \in Sequential : Step(c) \/ LifecycleStep(c)

SpecLifecycle == InitLifecycle /\ [][NextLifecycle]_vars

(***************************************************************************)
(* Specification: several estimateTransactionCost calls in flight on one   *)
(* session (Promise.all of the batch example), each suspended at its       *)
(* fee-data read, while the fee data of the ledger changes between reads   *)
(***************************************************************************)
\* the gas prices of successive blocks: 20 gwei, 20.5 gwei, 2^53 + 1 wei
ConcurrentGasPrices == { <<2, 0>> \o Zeros(9), <<2, 0, 5>> \o Zeros(8),
                         <<9, 0, 0, 7, 1, 9, 9, 2, 5, 4, 7, 4, 0, 9, 9, 3>> }

\* a new block: the next getFeeData answers another gas price
FeeMarketMoves ==
    /\ \E g \in ConcurrentGasPrices :
        /\ g # ledger.gasPrice
        /\ ledger' = [ledger EXCEPT !.gasPrice = g]
    /\ UNCHANGED <<session, call, stack, res, trace, console, txs, scriptRuns, runner>>

EstimateStep(c) ==
    \/ Call_estimateTransactionCost(c)
    \/ Collect(c)
    \/ ReadSucceeds(c)
    \/ ReadFails(c)
    \/ estimateTransactionCost_Start(c)
    \/ estimateTransactionCost_Resume(c)

InitConcurrent ==
    /\ Init
    /\ ledger = Ledger(DocEth, DocUsdt, DocGasPrice, DocMaxFee)

NextConcurrent ==
    \/ \E c \in CallIds : EstimateStep(c)
    \/ FeeMarketMoves

SpecConcurrent == InitConcurrent /\ [][NextConcurrent]_vars

(***************************************************************************)
(* Specification: several simulateFlashGeneration calls in flight on one   *)
(* session (Promise.all over amounts, the batch example), their reads and  *)
(* delays interleaved in every order, while the fee data changes. The      *)
(* results stay with the caller once the calls have returned.              *)
(***************************************************************************)
\* the amounts of the batch: the first call simulates 300 or 1000, the second 1000
BatchAmounts == << { <<"300">>, <<"1000">> }, { <<"1000">> } >>

\* amounts.map(amount => generator.simulateFlashGeneration(amount))
Call_simulateBatch(c) ==
    \E args \in BatchAmounts[c] : Invoke(c, "simulateFlashGeneration", args)

\* a new block: the gas price rises from 20 to 20.5 gwei
FeeRises ==
    /\ ledger.gasPrice = DocGasPrice
    /\ ledger' = [ledger EXCEPT !.gasPrice = <<2, 0, 5>> \o Zeros(8)]
    /\ UNCHANGED <<session, call, stack, res, trace, console, txs, scriptRuns, runner>>

\* the outstanding read or timer of call c is answered
Responds(c) == ReadSucceeds(c) \/ ReadFails(c) \/ TimerFires(c)

\* a function of a simulation, on top of the stack of call c, runs to its next await
\* or to its end
Runs(c) ==
    \/ getEthBalance_Start(c)
    \/ getEthBalance_Resume(c)
    \/ getUsdtBalance_Start(c)
    \/ getUsdtBalance_Resume(c)
    \/ estimateTransactionCost_Start(c)
    \/ estimateTransactionCost_Resume(c)
    \/ validateWallet_Start(c)
    \/ validateWallet_Network(c)
    \/ validateWallet_EthBalance(c)
    \/ validateWallet_UsdtBalance(c)
    \/ simulateFlashGeneration_Start(c)
    \/ simulateFlashGeneration_Validated(c)
    \/ simulateFlashGeneration_EthBalance(c)
    \/ simulateFlashGeneration_UsdtBalance(c)
    \/ simulateFlashGeneration_Estimated(c)
    \/ simulateFlashGeneration_Delayed(c)

SimulationStep(c) ==
    \/ Call_simulateBatch(c)
    \/ Responds(c)
    \/ Runs(c)

NextSimulations ==
    \/ \E c \in CallIds : SimulationStep(c)
    \/ FeeRises

SpecSimulations == InitConcurrent /\ [][NextSimulations]_vars

(***************************************************************************)
(* Specification: one caller of validateWallet and simulateFlashGeneration *)
(* on a node that answers every outstanding read, by a value or a failure, *)
(* and an event loop that fires every timer and runs every resumed         *)
(* function, eventually                                                    *)
(***************************************************************************)
\* the wallet holds any of the native balances, the rest of the ledger is the
\* documented one
InitResponsive ==
    /\ Init
    /\ ledger \in { Ledger(e, DocUsdt, DocGasPrice, DocMaxFee) : e \in EthBalances }

NextProcedures ==
    \E c \in Sequential :
        \/ Call_validateWallet(c)
        \/ Collect(c)
        \/ SimulationStep(c)

SpecResponsive ==
    /\ InitResponsive
    /\ [][NextProcedures]_vars
    /\ \A c \in Sequential : WF_vars(Responds(c)) /\ WF_vars(Runs(c))

(***************************************************************************)
(* TestRunner (the test suite)                                             *)
(***************************************************************************)
\* how many tests are registered at most, and how many times the suite is run
MaxTests == 2
MaxRuns == 2
\* the names tests are registered under
TestNames == {"Utility Functions", "Custom Test"}
\* Date.now() - startTime, in ms
Durations == {0, 12}
\* what a test function does when awaited: it returns, or it throws (rejects with) a
\* value: an Error with a message, a value without a message property (a string), or
\* null / undefined (reject() without a reason)
Thrown(nullish, message) == [nullish |-> nullish, message |-> message]
TestThrows ==
    { Thrown(FALSE, <<"Test failed">>), Thrown(FALSE, <<>>), Thrown(TRUE, <<>>) }

\* generateSummary()
generateSummary(results) ==
    [ total   |-> Len(results),
      passed  |-> Cardinality({i \in 1..Len(results) : results[i].status = "PASSED"}),
      failed  |-> Cardinality({i \in 1..Len(results) : results[i].status = "FAILED"}),
      results |-> results ]

\* addTest(name, testFn), before the suite is run
addTest(c) ==
    /\ Idle(c)
    /\ runner.results = <<>>
    /\ Len(runner.tests) < MaxTests
    /\ \E name \in TestNames :
        /\ runner' = [runner EXCEPT !.tests = Append(@, [name |-> name])]
        /\ call' = [call EXCEPT ![c] = [op |-> "addTest", args |-> <<name>>]]
    /\ res' = [res EXCEPT ![c] = [kind |-> "return", val |-> <<>>]]
    /\ trace' = [trace EXCEPT ![c] = <<>>]
    /\ console' = [console EXCEPT ![c] = <<>>]
    /\ UNCHANGED <<ledger, session, stack, txs, scriptRuns>>

Call_runAll(c) ==
    /\ Len(runner.results) <= (MaxRuns - 1) * Len(runner.tests)
    /\ Enter(c, "runAll", <<>>)

\* the lines are logged and the loop of runAll reaches test number i, if there is
\* one: it is announced and awaited; after the last test the summary is returned
runAll_Next(c, lines, i, tests, results) ==
    IF i <= Len(tests)
        THEN /\ Say(c, lines \o <<Line(<<"Running: ", tests[i].name>>)>>)
             /\ Await(c, [Top(c) EXCEPT !.aux = <<i>>], "testFn", "testFn")
        ELSE /\ Say(c, lines)
             /\ Finish(c, "return", generateSummary(results))

runAll_Start(c) ==
    /\ AtStart(c, "runAll")
    /\ runAll_Next(c, <<Line(<<"Starting Flash USDT Generator Test Suite...">>)>>,
                   1, runner.tests, runner.results)
    /\ UNCHANGED <<ledger, session, call, txs, scriptRuns, runner>>

\* the test function awaited by call c settles
TestSettles(c) ==
    /\ Pending(c)
    /\ trace[c][Len(trace[c])].read = "testFn"
    /\ \/ /\ trace' = SetLast(c, "ok", <<>>)
          /\ res' = [res EXCEPT ![c] = [kind |-> "return", val |-> <<>>]]
       \/ \E error \in TestThrows :
            /\ trace' = SetLast(c, "fail", <<>>)
            /\ res' = [res EXCEPT ![c] = [kind |-> "throw", val |-> error]]
    /\ UNCHANGED <<ledger, session, call, stack, console, txs, scriptRuns, runner>>

\* the awaited test function has settled: its result is pushed and the loop goes on.
\* A test that threw null or undefined makes the catch clause itself throw, at
\* error.message, before anything is pushed
runAll_Tested(c) ==
    /\ Resumed(c, "runAll", "testFn")
    /\ LET i     == Top(c).aux[1]
           test  == runner.tests[i]
           error == res[c].val
       IN  IF res[c].kind = "return"
            THEN \E duration \in Durations :
                    LET results == Append(runner.results,
                                    [ name |-> test.name, status |-> "PASSED",
                                      duration |-> <<BigIntToString(NatDigits(duration)), "ms">> ])
                    IN  /\ runner' = [runner EXCEPT !.results = results]
                        /\ runAll_Next(c, <<Line(<<"PASSED: ", test.name>>)>>,
                                       i + 1, runner.tests, results)
            ELSE IF error.nullish
            THEN /\ Finish(c, "throw", <<"Cannot read properties of null (reading 'message')">>)
                 /\ UNCHANGED <<runner, console>>
            ELSE LET results == Append(runner.results,
                                    [ name |-> test.name, status |-> "FAILED",
                                      error |-> error.message ])
                 IN  /\ runner' = [runner EXCEPT !.results = results]
                     /\ runAll_Next(c, << Line(<<"FAILED: ", test.name>>),
                                          LineWith(<<"   Error: ">>, error.message) >>,
                                    i + 1, runner.tests, results)
    /\ UNCHANGED <<ledger, session, call, txs, scriptRuns>>

(***************************************************************************)
(* Specification: a test suite registers its tests on a TestRunner and     *)
(* awaits runAll, once or again                                            *)
(***************************************************************************)
NextTestRunner ==
    \E c \in Sequential :
        \/ addTest(c)
        \/ Call_runAll(c)
        \/ runAll_Start(c)
        \/ TestSettles(c)
        \/ runAll_Tested(c)
        \/ Collect(c)

SpecTestRunner == InitConcurrent /\ [][NextTestRunner]_vars

(***************************************************************************)
(* Specification: hasSufficientBalance and validateWallet called once each *)
(* on one session, by two callers, over every ledger                       *)
(***************************************************************************)
NextAgreement ==
    \/ Call_hasSufficientBalance(1)
    \/ Call_validateWallet(2)
    \/ \E c \in CallIds :
        \/ ReadSucceeds(c)
        \/ ReadFails(c)
        \/ hasSufficientBalance_Start(c)
        \/ hasSufficientBalance_Resume(c)
        \/ getEthBalance_Start(c)
        \/ getEthBalance_Resume(c)
        \/ getUsdtBalance_Start(c)
        \/ getUsdtBalance_Resume(c)
        \/ validateWallet_Start(c)
        \/ validateWallet_Network(c)
        \/ validateWallet_EthBalance(c)
        \/ validateWallet_UsdtBalance(c)

SpecAgreement == Init /\ [][NextAgreement]_vars

(***************************************************************************)
(* Properties                                                              *)
(***************************************************************************)
\* call c has finished operation op
Finished(c, op) == Done(c) /\ call[c].op = op

\* the outcomes of the reads call c issued, in order
Outcomes(c) == [i \in 1..Len(trace[c]) |-> trace[c][i].st]

\* the five step descriptions of a simulation of amt
FiveSteps(amt) ==
    << <<"Validating wallet configuration...">>,
       <<"Checking current balances...">>,
       <<"Estimating transaction costs...">>,
       <<"Simulating flash generation of ", amt, " USDT...">>,
       <<"Flash generation simulation completed successfully">> >>

\* C1: no operation of the repository submits a state-changing transaction: the
\* token contract's transfer is never invoked and no balance of the ledger moves.
C1_NoTransactionSubmitted ==
    /\ Len(txs) = 0
    /\ ledger.recipientUsdt = 0

\* C2: when the network-identity read fails, validateWallet returns exactly
\* {isValid: false, errors: [the message], warnings: [], info: {}} and the call
\* issues no other read.
C2_NetworkFailureShortCircuits ==
    \A c \in CallIds :
        (call[c].op = "validateWallet" /\ Len(trace[c]) >= 1 /\ trace[c][1].st = "fail") =>
            /\ trace[c][1].read = "getNetwork"
            /\ Len(trace[c]) = 1
            /\ Done(c) =>
                /\ res[c].kind = "return"
                /\ res[c].val.isValid = FALSE
                /\ res[c].val.errors = <<trace[c][1].msg>>
                /\ res[c].val.warnings = <<>>
                /\ DOMAIN res[c].val.info = {}

C2_Witness ==
    /\ Finished(1, "validateWallet")
    /\ trace[1][1].st = "fail"
    /\ res[1].val.errors = << <<"could not detect network">> >>

\* C3: when only the token-balance read fails, validateWallet returns isValid = true,
\* no error, the token-balance warning, and info with network, chain id, wallet
\* address and native balance but no token balance.
C3_TokenFailureIsWarning ==
    \A c \in CallIds :
        (Finished(c, "validateWallet") /\ Outcomes(c) = <<"ok", "ok", "fail">>) =>
            /\ res[c].kind = "return"
            /\ res[c].val.isValid = TRUE
            /\ res[c].val.errors = <<>>
            /\ \E i \in 1..Len(res[c].val.warnings) :
                    res[c].val.warnings[i] = "Could not retrieve USDT balance"
            /\ DOMAIN res[c].val.info = {"network", "chainId", "walletAddress", "ethBalance"}
            /\ res[c].val.info["network"] = "mainnet"
            /\ res[c].val.info["chainId"] = <<"1">>
            /\ res[c].val.info["walletAddress"] = session.wallet[1].address

C3_Witness ==
    /\ Finished(1, "validateWallet")
    /\ Outcomes(1) = <<"ok", "ok", "fail">>
    /\ Len(res[1].val.warnings) = 2

\* C4: when every remote read succeeds, simulateFlashGeneration(amount) returns
\* success = true, error = null, a gas estimate, the requested amount ("300" when
\* omitted) and exactly the five step descriptions in their order.
C4_HealthySimulationSucceeds ==
    \A c \in CallIds :
        (Finished(c, "simulateFlashGeneration")
            /\ \A i \in 1..Len(trace[c]) : trace[c][i].st = "ok") =>
            LET requested == IF Len(call[c].args) = 0 THEN "300" ELSE call[c].args[1]
            IN  /\ res[c].kind = "return"
                /\ res[c].val.success = TRUE
                /\ res[c].val.error = <<>>
                /\ Len(res[c].val.gasEstimate) = 1
                /\ res[c].val.amount = requested
                /\ res[c].val.steps = FiveSteps(requested)

C4_Witness ==
    /\ Finished(1, "simulateFlashGeneration")
    /\ \A i \in 1..Len(trace[1]) : trace[1][i].st = "ok"
    /\ call[1].args = <<"1000">>
    /\ res[1].val.success

\* the step of simulateFlashGeneration during which its i-th read is issued:
\* validation issues reads 1..3, the balance snapshot reads 4 and 5, the estimate read 6
StepOfRead(i) == IF i <= 3 THEN 1 ELSE IF i <= 5 THEN 2 ELSE 3

\* the message simulateFlashGeneration's catch clause receives when read i fails with msg
CaughtMessage(i, msg) ==
    CASE i = 1 -> <<"Wallet validation failed: ">> \o msg
      [] i = 2 -> <<"Wallet validation failed: ", "Failed to get ETH balance: ">> \o msg
      [] i = 3 -> <<"Wallet validation failed: ", "Failed to get USDT balance: ">> \o msg
      [] i = 4 -> <<"Failed to get ETH balance: ">> \o msg
      [] i = 5 -> <<"Failed to get USDT balance: ">> \o msg
      [] i = 6 -> <<"Failed to estimate transaction cost: ">> \o msg

\* the result of call c is the failure of read i: the first k steps and nothing else
FailedAtRead(c, i) ==
    /\ res[c].kind = "return"
    /\ res[c].val.success = FALSE
    /\ res[c].val.error = <<CaughtMessage(i, trace[c][i].msg)>>
    /\ res[c].val.gasEstimate = <<>>
    /\ res[c].val.steps = SubSeq(FiveSteps(res[c].val.amount), 1, StepOfRead(i))

\* the token-balance read of validation, whose failure is a warning
SoftRead(c, i) == i = 3 /\ trace[c][i].read = "balanceOf"

\* C5 as stated: if any read fails during step k (1..3) of simulateFlashGeneration,
\* the result has success = false, the failure's message as error, no gas estimate
\* and exactly the first k step descriptions.
C5_AnyReadFailureAborts ==
    \A c \in CallIds :
        Finished(c, "simulateFlashGeneration") =>
            \A i \in 1..Len(trace[c]) :
                trace[c][i].st = "fail" => FailedAtRead(c, i)

\* C5, amended: if a read other than validation's token-balance read fails during
\* step k (1..3) of simulateFlashGeneration, the result has success = false, the
\* failure's message as error, no gas estimate and exactly the first k step
\* descriptions; a fee-data failure yields [validate, check balances, estimate costs].
C5_HardReadFailureAborts ==
    \A c \in CallIds :
        Finished(c, "simulateFlashGeneration") =>
            \A i \in 1..Len(trace[c]) :
                (trace[c][i].st = "fail" /\ ~SoftRead(c, i)) =>
                    /\ FailedAtRead(c, i)
                    /\ i = Len(trace[c])
                    /\ trace[c][i].read = "getFeeData" =>
                            res[c].val.steps = << <<"Validating wallet configuration...">>,
                                                  <<"Checking current balances...">>,
                                                  <<"Estimating transaction costs...">> >>

C5_Witness ==
    /\ Finished(1, "simulateFlashGeneration")
    /\ Len(trace[1]) = 6
    /\ trace[1][6].read = "getFeeData"
    /\ trace[1][6].st = "fail"
    /\ Len(res[1].val.steps) = 3

\* msg is the end of message
EndsWith(message, msg) ==
    /\ Len(message) >= Len(msg)
    /\ SubSeq(message, Len(message) - Len(msg) + 1, Len(message)) = msg

LastRead(c) == trace[c][Len(trace[c])]

\* validateWallet and simulateFlashGeneration return, and their result carries the failure
NeverThrowPastBoundary ==
    \A c \in CallIds :
        /\ Finished(c, "validateWallet") =>
            /\ res[c].kind = "return"
            /\ (LastRead(c).st = "fail" /\ Len(trace[c]) <= 2) =>
                    /\ ~res[c].val.isValid
                    /\ Len(res[c].val.errors) = 1
                    /\ EndsWith(res[c].val.errors[1], LastRead(c).msg)
            /\ (LastRead(c).st = "fail" /\ Len(trace[c]) = 3) =>
                    /\ res[c].val.isValid
                    /\ Len(res[c].val.warnings) >= 1
            /\ LastRead(c).st = "ok" => res[c].val.isValid /\ res[c].val.errors = <<>>
        /\ Finished(c, "simulateFlashGeneration") =>
            /\ res[c].kind = "return"
            /\ LastRead(c).st = "fail" =>
                    /\ ~res[c].val.success
                    /\ Len(res[c].val.error) = 1
                    /\ EndsWith(res[c].val.error[1], LastRead(c).msg)
            /\ LastRead(c).st = "ok" => res[c].val.success /\ res[c].val.error = <<>>

\* C6 as stated: validateWallet and simulateFlashGeneration never throw to their
\* caller and return a result carrying the failure; only session construction can
\* throw, so no operation of a constructed session does.
C6_OnlyConstructionThrows ==
    /\ NeverThrowPastBoundary
    /\ \A c \in CallIds : Done(c) => res[c].kind # "throw"

ThrowingAccessors ==
    {"getEthBalance", "getUsdtBalance", "estimateTransactionCost", "getContractInfo", "getNetworkStats"}

\* C6, amended: validateWallet and simulateFlashGeneration never throw to their
\* caller and return a result carrying the failure; of the operations of a
\* constructed session only the accessors getEthBalance, getUsdtBalance,
\* estimateTransactionCost, getContractInfo and getNetworkStats throw, and only when
\* a read of theirs failed.
C6_ValidationAndSimulationNeverThrow ==
    /\ NeverThrowPastBoundary
    /\ \A c \in CallIds :
        (Done(c) /\ res[c].kind = "throw") =>
            /\ call[c].op \in ThrowingAccessors
            /\ LastRead(c).st = "fail"

C6_Witness ==
    /\ Finished(1, "simulateFlashGeneration")
    /\ res[1].kind = "return"
    /\ ~res[1].val.success
    /\ res[1].val.error = << <<"Failed to get USDT balance: ", "request timeout">> >>

\* C7: if the validation report of step 1 has isValid = false, simulateFlashGeneration
\* returns at once with error 'Wallet validation failed: ' followed by the report's
\* errors joined with ', ' and steps holding only the validation step; the call has
\* issued no fee-data read and no delay, and issues no read after the report.
C7_InvalidReportAbortsSimulation ==
    [][\A c \in CallIds :
        ( /\ Resumed(c, "simulateFlashGeneration", "validateWallet")
          /\ res[c].kind = "return"
          /\ ~res[c].val.isValid
          /\ Len(stack'[c]) # Len(stack[c]) ) =>
            /\ Len(stack'[c]) = 0
            /\ res'[c].kind = "return"
            /\ res'[c].val.success = FALSE
            /\ res'[c].val.error =
                    << <<"Wallet validation failed: ">> \o Join(res[c].val.errors, ", ") >>
            /\ res'[c].val.steps = << <<"Validating wallet configuration...">> >>
            /\ res'[c].val.gasEstimate = <<>>
            /\ trace'[c] = trace[c]
            /\ Len(trace[c]) <= 2
            /\ \A i \in 1..Len(trace[c]) : trace[c][i].read \in {"getNetwork", "getBalance"}
      ]_vars

C7_Witness ==
    /\ Finished(1, "simulateFlashGeneration")
    /\ Len(trace[1]) = 2
    /\ trace[1][2].st = "fail"
    /\ res[1].val.error =
            << <<"Wallet validation failed: ", "Failed to get ETH balance: ", "request timeout">> >>
    /\ res[1].val.steps = << <<"Validating wallet configuration...">> >>

\* C8: hasSufficientBalance never throws: it returns false when the native-balance
\* read fails, and otherwise true exactly when the raw balance is at least 10^16
\* smallest units (a number of 17 digits or more).
C8_SufficientBalanceFailsSafe ==
    \A c \in CallIds :
        Finished(c, "hasSufficientBalance") =>
            /\ res[c].kind = "return"
            /\ Len(trace[c]) = 1
            /\ trace[c][1].st = "fail" => res[c].val = FALSE
            /\ trace[c][1].st = "ok" => (res[c].val = TRUE <=> Len(ledger.eth) >= 17)

C8_Witness ==
    /\ Finished(1, "hasSufficientBalance")
    /\ trace[1][1].st = "fail"
    /\ res[1].val = FALSE
    /\ Len(ledger.eth) >= 17

\* long division of the digit sequence a by k: quotient and remainder
RECURSIVE DivRem(_, _, _, _)
DivRem(a, k, rem, quot) ==
    IF Len(a) = 0
        THEN [q |-> StripZeros(quot), r |-> rem]
        ELSE LET t == rem * 10 + Head(a)
             IN  DivRem(Tail(a), k, t % k, quot \o <<t \div k>>)

\* the decimal string cost is exactly gasPrice * k
IsProduct(cost, gasPrice, k) ==
    LET d == DivRem([i \in 1..Len(cost) |-> DigitOf(cost[i])], k, 0, <<>>)
    IN  d.q = gasPrice /\ d.r = 0

\* a gas estimate of the ledger's gas price at the fixed gas limit
ExactEstimate(estimate) ==
    /\ estimate.gasLimit = 21000
    /\ IsProduct(estimate.estimatedCostWei, ledger.gasPrice, 21000)
    /\ ledger.gasPrice = <<2, 0, 0, 0, 0, 0, 0, 0, 0, 0, 0>> =>
        /\ estimate.estimatedCostWei =
             <<"4", "2", "0", "0", "0", "0", "0", "0", "0", "0", "0", "0", "0", "0", "0">>
        /\ estimate.estimatedCostETH = <<"0", ".", "0", "0", "0", "4", "2">>

\* C9: estimateTransactionCost multiplies in integers: the smallest-unit cost is
\* gasPrice * 21000 exactly for every gas price; for 20 gwei it is 420000000000000,
\* rendered "0.00042", with gasLimit 21000.
C9_CostIsExactProduct ==
    \A c \in CallIds :
        /\ (Finished(c, "estimateTransactionCost") /\ res[c].kind = "return") =>
                ExactEstimate(res[c].val)
        /\ (Finished(c, "simulateFlashGeneration") /\ Len(res[c].val.gasEstimate) = 1) =>
                ExactEstimate(res[c].val.gasEstimate[1])

C9_Witness ==
    /\ Finished(1, "estimateTransactionCost")
    /\ res[1].kind = "return"
    /\ ledger.gasPrice = <<2, 0, 0, 0, 0, 0, 0, 0, 0, 0, 0>>
    /\ res[1].val.estimatedCostETH = <<"0", ".", "0", "0", "0", "4", "2">>

\* C10 as stated: estimateTransactionCost takes a gasLimit argument defaulting to
\* 21000; the returned gasLimit is the argument and the cost is gasPrice * argument.
C10_GasLimitArgumentUsed ==
    \A c \in CallIds :
        (Finished(c, "estimateTransactionCost") /\ res[c].kind = "return") =>
            LET gasLimit == IF Len(call[c].args) = 0 THEN 21000 ELSE call[c].args[1]
            IN  /\ res[c].val.gasLimit = gasLimit
                /\ IsProduct(res[c].val.estimatedCostWei, ledger.gasPrice, gasLimit)

\* C10, amended: estimateTransactionCost takes no gasLimit parameter: whatever the
\* caller passes, the returned gasLimit is the fixed 21000 and the cost is
\* gasPrice * 21000.
C10_GasLimitArgumentIgnored ==
    \A c \in CallIds :
        (Finished(c, "estimateTransactionCost") /\ res[c].kind = "return"
            /\ Len(call[c].args) = 1) =>
            /\ res[c].val.gasLimit = 21000
            /\ IsProduct(res[c].val.estimatedCostWei, ledger.gasPrice, 21000)
            /\ (ledger.gasPrice # <<0>> /\ call[c].args[1] # 21000) =>
                    ~IsProduct(res[c].val.estimatedCostWei, ledger.gasPrice, call[c].args[1])

C10_Witness ==
    /\ Finished(1, "estimateTransactionCost")
    /\ res[1].kind = "return"
    /\ call[1].args = <<50000>>
    /\ res[1].val.gasLimit = 21000
    /\ ledger.gasPrice # <<0>>

\* the gas price the fee-data read of call c returned
OwnGasPrice(c) == trace[c][1].val[1].gasPrice

\* C11: estimateTransactionCost calls in flight together on one session, interleaved
\* in any order at their fee-data read, each return the estimate of the fee data
\* their own read returned (gas limit 21000, cost = own gas price * 21000, "0.00042"
\* for 20 gwei) and each throw only when their own read failed, whatever the other
\* call read and however it ended.
C11_ConcurrentEstimatesIndependent ==
    \A c \in CallIds :
        Finished(c, "estimateTransactionCost") =>
            /\ Len(trace[c]) = 1
            /\ res[c].kind = "throw" <=> trace[c][1].st = "fail"
            /\ res[c].kind = "return" =>
                /\ res[c].val.gasLimit = 21000
                /\ IsProduct(res[c].val.estimatedCostWei, OwnGasPrice(c), 21000)
                /\ OwnGasPrice(c) = <<2, 0, 0, 0, 0, 0, 0, 0, 0, 0, 0>> =>
                    /\ res[c].val.gasPrice = <<"2", "0", ".", "0">>
                    /\ res[c].val.estimatedCostETH = <<"0", ".", "0", "0", "0", "4", "2">>
                /\ OwnGasPrice(c) = <<2, 0, 5, 0, 0, 0, 0, 0, 0, 0, 0>> =>
                    /\ res[c].val.gasPrice = <<"2", "0", ".", "5">>
                    /\ res[c].val.estimatedCostETH = <<"0", ".", "0", "0", "0", "4", "3", "0", "5">>

\* both calls are finished, their reads returned different fee data, and the ledger
\* has moved on to a third
C11_Witness ==
    /\ Finished(1, "estimateTransactionCost") /\ res[1].kind = "return"
    /\ Finished(2, "estimateTransactionCost") /\ res[2].kind = "return"
    /\ OwnGasPrice(1) = <<2, 0, 5, 0, 0, 0, 0, 0, 0, 0, 0>>
    /\ OwnGasPrice(2) = <<2, 0, 0, 0, 0, 0, 0, 0, 0, 0, 0>>
    /\ res[1].val.estimatedCostETH = <<"0", ".", "0", "0", "0", "4", "3", "0", "5">>
    /\ res[2].val.estimatedCostETH = <<"0", ".", "0", "0", "0", "4", "2">>
    /\ ledger.gasPrice \notin {OwnGasPrice(1), OwnGasPrice(2)}

\* the prefix with which an accessor wraps the failure of a read of its own
AccessorPrefix(op) ==
    CASE op = "getEthBalance"           -> "Failed to get ETH balance: "
      [] op = "getUsdtBalance"          -> "Failed to get USDT balance: "
      [] op = "estimateTransactionCost" -> "Failed to estimate transaction cost: "
      [] op = "getContractInfo"         -> "Failed to get contract info: "
      [] op = "getNetworkStats"         -> "Failed to get network stats: "

\* message is one prefix fragment followed by msg
Prefixed(message, msg) == Len(message) = Len(msg) + 1 /\ EndsWith(message, msg)

\* the failures accessors throw and simulations carry are wrapped
ThrownAndSimulatedWrapped ==
    \A c \in CallIds :
        /\ (Done(c) /\ call[c].op \in ThrowingAccessors /\ LastRead(c).st = "fail") =>
            /\ res[c].kind = "throw"
            /\ res[c].val = <<AccessorPrefix(call[c].op)>> \o LastRead(c).msg
        /\ (Finished(c, "simulateFlashGeneration") /\ LastRead(c).st = "fail") =>
            /\ Len(res[c].val.error) = 1
            /\ res[c].val.error[1] = CaughtMessage(Len(trace[c]), LastRead(c).msg)
            /\ res[c].val.error[1][1] \in
                    { "Wallet validation failed: ", "Failed to get ETH balance: ",
                      "Failed to get USDT balance: ", "Failed to estimate transaction cost: " }

\* C12 as stated: every transport failure reported to a caller, thrown by an accessor
\* or carried in ValidationReport.errors or SimulationResult.error, is a descriptive
\* prefix naming the failed operation followed by the underlying failure's message.
C12_EveryFailureWrapped ==
    /\ ThrownAndSimulatedWrapped
    /\ \A c \in CallIds :
        (Finished(c, "validateWallet") /\ LastRead(c).st = "fail") =>
            \A i \in 1..Len(res[c].val.errors) :
                /\ Prefixed(res[c].val.errors[i], LastRead(c).msg)
                /\ res[c].val.errors[i][1] \notin TransportErrorFragments

\* C12, amended: every transport failure thrown by an accessor or carried in
\* SimulationResult.error is a descriptive prefix followed by the underlying failure's
\* message; in ValidationReport.errors a native-balance failure is wrapped with
\* 'Failed to get ETH balance: ', and a network-identity failure is carried as the
\* underlying message alone, with no prefix.
C12_FailuresWrappedExceptNetworkIdentity ==
    /\ ThrownAndSimulatedWrapped
    /\ \A c \in CallIds :
        (Finished(c, "validateWallet") /\ LastRead(c).st = "fail") =>
            /\ LastRead(c).read = "getNetwork" => res[c].val.errors = <<LastRead(c).msg>>
            /\ LastRead(c).read = "getBalance" =>
                    res[c].val.errors = << <<"Failed to get ETH balance: ">> \o LastRead(c).msg >>
            /\ LastRead(c).read = "balanceOf" => res[c].val.errors = <<>>

C12_Witness ==
    /\ Finished(1, "validateWallet")
    /\ LastRead(1).read = "getBalance"
    /\ res[1].val.errors = << <<"Failed to get ETH balance: ", "could not detect network">> >>

\* the reads getContractInfo and getNetworkStats make, in the order they make them
ReadsOf(op) ==
    IF op = "getContractInfo" THEN <<"name", "symbol", "decimals">>
                              ELSE <<"getBlockNumber", "getFeeData", "getNetwork">>

\* getContractInfo and getNetworkStats stop at the first read that fails, throw the
\* wrapped failure, and return a complete result when the three reads succeeded
AllOrNothing ==
    \A c \in CallIds :
        call[c].op \in {"getContractInfo", "getNetworkStats"} =>
            /\ Len(trace[c]) <= 3
            /\ \A i \in 1..Len(trace[c]) :
                /\ trace[c][i].read = ReadsOf(call[c].op)[i]
                /\ trace[c][i].st = "fail" => i = Len(trace[c])
            /\ (Done(c) /\ LastRead(c).st = "fail") =>
                /\ res[c].kind = "throw"
                /\ res[c].val = <<AccessorPrefix(call[c].op)>> \o LastRead(c).msg
            /\ (Done(c) /\ LastRead(c).st = "ok") =>
                /\ res[c].kind = "return"
                /\ Len(trace[c]) = 3
                /\ call[c].op = "getContractInfo" =>
                        res[c].val = [ address  |-> "0xdAC17F958D2ee523a2206206994597C13D831ec7",
                                       name     |-> "Tether USD",
                                       symbol   |-> "USDT",
                                       decimals |-> <<"6">> ]
                /\ call[c].op = "getNetworkStats" =>
                        /\ res[c].val.currentBlock = trace[c][1].val[1]
                        /\ res[c].val.networkName = trace[c][3].val[1].name

Occurrences(list, w) == Cardinality({i \in 1..Len(list) : list[i] = w})

\* C18: when its network and native-balance reads succeed, validateWallet returns
\* isValid = true with no error for every balance, zero included, records the
\* balance, and carries the low-balance warning (once) exactly when the balance it
\* read is below 0.01 native units, that is below 10^16 smallest units.
C18_LowBalanceWarnsOnly ==
    \A c \in CallIds :
        (Finished(c, "validateWallet") /\ Len(trace[c]) >= 2 /\ trace[c][2].st = "ok") =>
            LET balance == trace[c][2].val[1]
                low     == Occurrences(res[c].val.warnings,
                                "Low ETH balance - may not be sufficient for transactions")
            IN  /\ res[c].val.isValid = TRUE
                /\ res[c].val.errors = <<>>
                /\ "ethBalance" \in DOMAIN res[c].val.info
                /\ low = (IF Len(balance) < 17 THEN 1 ELSE 0)
                /\ balance = <<0>> => res[c].val.info["ethBalance"] = <<"0", ".", "0">>

C18_Witness ==
    /\ Finished(1, "validateWallet")
    /\ Len(trace[1]) = 3
    /\ trace[1][2].val = << <<0>> >>
    /\ res[1].val.isValid
    /\ res[1].val.warnings = <<"Low ETH balance - may not be sufficient for transactions">>

\* the secrets of the model by their form: malformed (empty, not hex, 63 hex digits,
\* 31 bytes, a letter that is no hex digit), 64 hex digits denoting a scalar of
\* 1 .. n-1 (the test key with and without prefix, n - 1), and 64 hex digits denoting
\* no such scalar (zero, n)
MalformedSecrets ==
    { <<>>, INVALID_KEY, SubSeq(TEST_PRIVATE_KEY, 1, 65), SubSeq(TEST_PRIVATE_KEY, 1, 64),
      [TEST_PRIVATE_KEY EXCEPT ![40] = "g"] }
ScalarSecrets ==
    { TEST_PRIVATE_KEY, SubSeq(TEST_PRIVATE_KEY, 3, 66),
      <<"0", "x">> \o [CurveOrderHex EXCEPT ![64] = "0"] }
OutOfRangeSecrets ==
    { <<"0", "x">> \o [i \in 1..64 |-> "0"], <<"0", "x">> \o CurveOrderHex }

\* validatePrivateKey and construction both reject the secrets of `rejected` and both
\* accept those of `accepted`
ValidatorAgreesWithConstruction(rejected, accepted) ==
    \A c \in CallIds :
        /\ Finished(c, "validatePrivateKey") =>
            /\ res[c].kind = "return"
            /\ call[c].args[1] \in rejected => res[c].val = FALSE
            /\ call[c].args[1] \in accepted => res[c].val = TRUE
        /\ Finished(c, "new FlashUSDTGenerator") =>
            /\ call[c].args[1] \in rejected =>
                /\ res[c].kind = "throw"
                /\ res[c].val[1] = "Initialization failed: "
                /\ Len(res[c].val) > 1
            /\ call[c].args[1] \in accepted =>
                /\ res[c].kind = "return"
                /\ session.privateKey = call[c].args[1]
                /\ session.wallet # <<>>

C16_ValidatorsGateConstruction ==
    HasSession =>
        /\ session.privateKey \in ScalarSecrets
        /\ Len(session.infuraApiKey) = 32

\* C17: validateInfuraApiKey never throws and returns true exactly for a string of 32
\* characters, whatever they are: false for the empty string, 5, 24, 31 and 33
\* characters, an array of 32 elements, a number, null and undefined.
C17_ApiKeyIsAny32Characters ==
    \A c \in CallIds :
        Finished(c, "validateInfuraApiKey") =>
            LET apiKey == call[c].args[1]
            IN  /\ res[c].kind = "return"
                /\ res[c].val = TRUE <=> (apiKey.typeof = "string" /\ Len(apiKey.val) = 32)
                /\ res[c].val = TRUE <=>
                        apiKey.val \in { TEST_INFURA_API_KEY, UNREGISTERED_API_KEY,
                                         [i \in 1..32 |-> " "] } /\ apiKey.typeof = "string"
                /\ apiKey.typeof # "string" => res[c].val = FALSE

C17_Witness ==
    /\ Finished(1, "validateInfuraApiKey")
    /\ call[1].args[1] = JsString([i \in 1..32 |-> " "])
    /\ res[1].val = TRUE

\* str occurs in message
Contains(message, str) ==
    /\ Len(str) > 0
    /\ \E i \in 1..(Len(message) - Len(str) + 1) : SubSeq(message, i, i + Len(str) - 1) = str

\* the secret key call c works with
SecretOf(c) ==
    IF call[c].op \in {"new FlashUSDTGenerator", "main"} THEN call[c].args[1] ELSE session.privateKey

\* the console lines whose second argument is an error message
MessageLines ==
    { <<"Error in main execution:">>, <<"Simulation failed:">>, <<"Error checking balance:">>,
      <<"Flash USDT generation simulation failed:">> }

\* C19: the secret key is never written to the log and never appears in a result:
\* no console line, no error thrown, no ValidationReport error or address, and no
\* SimulationResult error of any operation contains the secret key.
C19_SecretNeverDisclosed ==
    \A c \in CallIds :
        call[c].op # "none" =>
            /\ \A i \in 1..Len(console[c]) :
                /\ ~Contains(console[c][i].text, SecretOf(c))
                /\ console[c][i].text \in MessageLines =>
                        ~Contains(console[c][i].obj[1], SecretOf(c))
            /\ (Done(c) /\ res[c].kind = "throw") => ~Contains(res[c].val, SecretOf(c))
            /\ Finished(c, "validateWallet") =>
                    \A i \in 1..Len(res[c].val.errors) :
                        ~Contains(res[c].val.errors[i], SecretOf(c))
            /\ Finished(c, "getWalletAddress") => ~Contains(res[c].val, SecretOf(c))
            /\ Finished(c, "simulateFlashGeneration") =>
                    \A i \in 1..Len(res[c].val.error) :
                        ~Contains(res[c].val.error[i], SecretOf(c))

\* C20: cleanup() never fails, and once it has returned the session holds no
\* LedgerClient handle any more; a repeated cleanup() changes nothing.
C20_CleanupReleasesHandles ==
    \A c \in CallIds :
        Finished(c, "cleanup") =>
            /\ res[c].kind = "return"
            /\ session.provider = <<>>
            /\ session.usdtContract = <<>>

\* str is a decimal rendering with exactly six fractional digits: an optional '-',
\* one digit or more, a point, six digits
SixFractionDigits(str) ==
    LET body == IF Len(str) > 0 /\ str[1] = "-" THEN Tail(str) ELSE str
    IN  /\ Len(body) >= 8
        /\ body[Len(body) - 6] = "."
        /\ \A i \in 1..Len(body) : i # Len(body) - 6 => IsDigit(body[i])

C22_NonNumericInputRaises ==
    \A c \in CallIds :
        (Finished(c, "formatUSDTAmount") /\ call[c].args[1] \in NonNumericAmounts) =>
            res[c].kind = "throw"

\* the calls whose reads the sequencing claims are about
Procedures == {"validateWallet", "simulateFlashGeneration"}

\* C23: within one call of validateWallet or simulateFlashGeneration the remote reads
\* are strictly sequential: at most one read of the call is outstanding, it is the
\* last one issued, and a step issues one read at most and none while one is outstanding.
C23_ReadsStrictlySequential ==
    /\ [](\A c \in CallIds :
            call[c].op \in Procedures =>
                \A i \in 1..(Len(trace[c]) - 1) : trace[c][i].st \in {"ok", "fail"})
    /\ [][\A c \in CallIds :
            (call[c].op \in Procedures /\ call'[c] = call[c] /\ Len(trace'[c]) > Len(trace[c])) =>
                /\ Len(trace'[c]) = Len(trace[c]) + 1
                /\ ~Pending(c)
                /\ SubSeq(trace'[c], 1, Len(trace[c])) = trace[c]
      ]_vars

\* the fifth read of a simulation is outstanding, the four before it have returned a
\* result or a failure
C23_Witness ==
    /\ call[1].op = "simulateFlashGeneration"
    /\ Len(trace[1]) = 5
    /\ trace[1][5].st = "pending"
    /\ trace[1][3].st = "fail"
    /\ trace[1][4].st = "ok"

\* the remote reads call c issued, in order (the timer of delay() is no read)
RemoteReads(c) ==
    LET reads == SelectSeq(trace[c], LAMBDA r : r.read # "delay")
    IN  [i \in 1..Len(reads) |-> reads[i].read]

IsPrefix(a, b) == Len(a) <= Len(b) /\ \A i \in 1..Len(a) : a[i] = b[i]

ValidationReads == <<"getNetwork", "getBalance", "balanceOf">>
SimulationReads == <<"getNetwork", "getBalance", "balanceOf", "getBalance", "balanceOf", "getFeeData">>

\* validateWallet issues each of its reads once at most, in their order, and a fully
\* successful simulation issues exactly its six reads
SinglePass ==
    \A c \in CallIds :
        /\ call[c].op = "validateWallet" => IsPrefix(RemoteReads(c), ValidationReads)
        /\ call[c].op = "simulateFlashGeneration" => IsPrefix(RemoteReads(c), SimulationReads)
        /\ (Finished(c, "simulateFlashGeneration") /\ res[c].val.success) =>
                /\ IsPrefix(SimulationReads, RemoteReads(c))
                /\ Len(RemoteReads(c)) = 6
                /\ Len(trace[c]) = 7

\* C24 as stated: no read is ever retried: in any call a read that failed is never
\* issued again; validateWallet issues each of its reads at most once, in order; a
\* fully successful simulateFlashGeneration issues exactly network identity, native
\* balance, token balance, native balance, token balance, fee data.
C24_FailedReadNeverIssuedAgain ==
    /\ SinglePass
    /\ \A c \in CallIds :
        \A i, j \in 1..Len(trace[c]) :
            (i < j /\ trace[c][i].st = "fail") => trace[c][j].read # trace[c][i].read

\* C24, amended: no read is retried: a read that failed is the last read of its call
\* and is never issued again, except the token-balance read of validation inside
\* simulateFlashGeneration, whose failure is a warning and after which step 2 reads
\* the native and the token balance; validateWallet issues each of its reads at most
\* once, in order; a fully successful simulateFlashGeneration issues exactly network
\* identity, native balance, token balance, native balance, token balance, fee data.
C24_NoRetrySinglePass ==
    /\ SinglePass
    /\ \A c \in CallIds :
        \A i \in 1..Len(trace[c]) :
            trace[c][i].st = "fail" =>
                \/ i = Len(trace[c])
                \/ /\ call[c].op = "simulateFlashGeneration"
                   /\ i = 3
                   /\ trace[c][i].read = "balanceOf"
                   /\ \A j \in (i + 1)..Len(trace[c]) :
                        trace[c][j].read = trace[c][i].read => j = 5

C24_Witness ==
    /\ Finished(1, "simulateFlashGeneration")
    /\ res[1].val.success = FALSE
    /\ Len(trace[1]) = 5
    /\ trace[1][3].read = "balanceOf" /\ trace[1][3].st = "fail"
    /\ trace[1][5].read = "balanceOf" /\ trace[1][5].st = "fail"

\* call c runs simulateFlashGeneration and its result object exists
Simulating(c) ==
    /\ call[c].op = "simulateFlashGeneration"
    /\ Len(stack[c]) >= 1
    /\ stack[c][1].pc # "start"

\* C25: at every moment of a simulateFlashGeneration call and at its return, steps is
\* a prefix of the five step descriptions for the requested amount; a step of the
\* call only appends to it; the completion entry is there only once the delay that
\* follows the step-4 entry has elapsed.
C25_StepsAppendOnly ==
    /\ [](\A c \in CallIds :
            /\ Simulating(c) =>
                /\ IsPrefix(stack[c][1].loc.steps, FiveSteps(AmountParam(call[c].args)))
                /\ Len(stack[c][1].loc.steps) >= 1
                /\ Len(stack[c][1].loc.steps) < 5
                /\ (Len(trace[c]) > 0 /\ LastRead(c).read = "delay") =>
                        Len(stack[c][1].loc.steps) = 4
            /\ Finished(c, "simulateFlashGeneration") =>
                /\ IsPrefix(res[c].val.steps, FiveSteps(AmountParam(call[c].args)))
                /\ Len(res[c].val.steps) = 5 =>
                        (LastRead(c).read = "delay" /\ LastRead(c).st = "ok")
                /\ LastRead(c).read = "delay" => Len(res[c].val.steps) = 5)
    /\ [][\A c \in CallIds :
            (Simulating(c) /\ call'[c] = call[c]) =>
                IF Len(stack'[c]) >= 1
                    THEN IsPrefix(stack[c][1].loc.steps, stack'[c][1].loc.steps)
                    ELSE IsPrefix(stack[c][1].loc.steps, res'[c].val.steps)
      ]_vars

\* the step-4 entry is logged and the delay has not elapsed
C25_Witness ==
    /\ Simulating(1)
    /\ Pending(1)
    /\ LastRead(1).read = "delay"
    /\ stack[1][1].loc.steps = SubSeq(FiveSteps("1000"), 1, 4)

\* the reads of call c whose failure ends a simulation
HardFailures(c) ==
    { i \in 1..Len(trace[c]) : trace[c][i].st = "fail" /\ ~SoftRead(c, i) }

\* the result of call c is made of its own amount and of the outcomes of its own reads
OwnResult(c) ==
    LET requested == call[c].args[1]
    IN  /\ res[c].kind = "return"
        /\ res[c].val.amount = requested
        /\ IsPrefix(res[c].val.steps, FiveSteps(requested))
        /\ IF HardFailures(c) = {}
            THEN /\ res[c].val.success = TRUE
                 /\ res[c].val.error = <<>>
                 /\ res[c].val.steps = FiveSteps(requested)
                 /\ res[c].val.gasEstimate = <<GasEstimate(trace[c][6].val[1])>>
            ELSE \E i \in HardFailures(c) : FailedAtRead(c, i)

\* C26: simulation results are fresh per call and not shared: when two
\* simulateFlashGeneration calls run concurrently on one session, under any
\* interleaving of their reads and delays, each returned result holds only its own
\* amount and steps and is decided by the outcomes of its own reads, a failure in the
\* other call changes nothing in it, and it is not changed after its return.
C26_ResultsNotShared ==
    /\ [](\A c \in CallIds : Finished(c, "simulateFlashGeneration") => OwnResult(c))
    /\ [][\A c \in CallIds : Done(c) => res'[c] = res[c]]_vars

\* the two calls ran together with different amounts; one succeeded, the other failed
C26_Witness ==
    /\ Finished(1, "simulateFlashGeneration") /\ Finished(2, "simulateFlashGeneration")
    /\ res[1].val.amount = "300" /\ res[2].val.amount = "1000"
    /\ res[1].val.success = TRUE
    /\ res[1].val.steps = FiveSteps("300")
    /\ res[2].val.success = FALSE
    /\ Len(res[2].val.steps) = 2

\* a result without its timestamp
Untimed(simulation) == [simulation EXCEPT !.timestamp = ""]

\* C28: simulateFlashGeneration is deterministic in its inputs: two calls given the
\* same amount and the same sequence of read outcomes (values and failures) return
\* results equal in success, amount, steps, gasEstimate and error; they differ at
\* most in timestamp.
C28_SimulationDeterministic ==
    ( /\ Finished(1, "simulateFlashGeneration")
      /\ Finished(2, "simulateFlashGeneration")
      /\ call[1].args = call[2].args
      /\ trace[1] = trace[2] ) =>
        /\ res[1].kind = res[2].kind
        /\ res[1].val.success = res[2].val.success
        /\ res[1].val.amount = res[2].val.amount
        /\ res[1].val.steps = res[2].val.steps
        /\ res[1].val.gasEstimate = res[2].val.gasEstimate
        /\ res[1].val.error = res[2].val.error
        /\ Untimed(res[1].val) = Untimed(res[2].val)

\* two successful simulations of 1000 that read the same values, the gas price having
\* changed before both fee-data reads, and were started at different times
C28_Witness ==
    /\ Finished(1, "simulateFlashGeneration")
    /\ Finished(2, "simulateFlashGeneration")
    /\ call[1].args = <<"1000">> /\ call[2].args = <<"1000">>
    /\ trace[1] = trace[2]
    /\ res[1].val.success
    /\ Len(trace[1]) = 7
    /\ trace[1][6].val[1].gasPrice = <<2, 0, 5>> \o Zeros(8)
    /\ res[1].val.timestamp # res[2].val.timestamp

\* C27: the bindings of a session are set once: after construction no operation
\* changes its identity, provider or contract binding (the session changes only when
\* a constructor runs), getWalletAddress returns the address bound at construction on
\* every call, and no constructed session has a null binding.
C27_BindingsNeverReassigned ==
    /\ [](HasSession =>
            /\ session.provider # <<>>
            /\ session.wallet # <<>>
            /\ session.usdtContract # <<>>
            /\ session = NewSession(session.privateKey, session.infuraApiKey, session.network)
            /\ \A c \in CallIds :
                    Finished(c, "getWalletAddress") => res[c].val = session.wallet[1].address)
    /\ [][session' # session =>
            \E c \in CallIds :
                \/ Idle(c) /\ call'[c].op = "new FlashUSDTGenerator" /\ res'[c].kind = "return"
                \/ AtStart(c, "main")
      ]_vars

\* cleanup() has returned, then getWalletAddress was called and returned the address
\* of the session
C27_Witness ==
    /\ HasSession
    /\ Finished(1, "getWalletAddress")
    /\ res[1].val = session.wallet[1].address
    /\ session.privateKey = <<"0", "x">> \o [CurveOrderHex EXCEPT ![64] = "0"]
    /\ session.infuraApiKey = INVALID_API_KEY

\* C29: the balances read in step 2 of simulateFlashGeneration are used for logging
\* only: whenever all reads succeed, whatever the native and the token balance read,
\* zero and below the 0.01 threshold included, the result has success = true, the five
\* steps, error = null and the gas estimate of the gas price read (for 20 gwei:
\* 21000, '20.0', '0.00042', '420000000000000').
C29_BalancesOnlyLogged ==
    \A c \in CallIds :
        ( /\ Finished(c, "simulateFlashGeneration")
          /\ \A i \in 1..Len(trace[c]) : trace[c][i].st = "ok"
          /\ \A i \in 1..Len(trace[c]) :
                trace[c][i].read = "getFeeData" =>
                    trace[c][i].val[1].gasPrice = <<2, 0>> \o Zeros(9) ) =>
            /\ res[c].val.success = TRUE
            /\ res[c].val.steps = FiveSteps(res[c].val.amount)
            /\ res[c].val.error = <<>>
            /\ res[c].val.gasEstimate =
                    << [ gasLimit         |-> 21000,
                         gasPrice         |-> <<"2", "0", ".", "0">>,
                         estimatedCostETH |-> <<"0", ".", "0", "0", "0", "4", "2">>,
                         estimatedCostWei |-> <<"4", "2">> \o [i \in 1..13 |-> "0"] ] >>
            /\ \E i \in 1..Len(console[c]) :
                    console[c][i].text = <<"Current ETH Balance: ">>
                                            \o formatEther(trace[c][4].val[1]) \o <<" ETH">>

\* a simulation that read a native balance of zero succeeded
C29_Witness ==
    /\ Finished(1, "simulateFlashGeneration")
    /\ \A i \in 1..Len(trace[1]) : trace[1][i].st = "ok"
    /\ trace[1][4].val[1] = <<0>>
    /\ res[1].val.success = TRUE

\* C30: every validateWallet and simulateFlashGeneration call eventually returns,
\* provided every remote read it issues is eventually answered by a value or a failure
\* and the timer of the delay eventually fires.
C30_ProceduresTerminate ==
    \A c \in Sequential :
        /\ (call[c].op = "validateWallet") ~> Finished(c, "validateWallet")
        /\ (call[c].op = "simulateFlashGeneration") ~> Finished(c, "simulateFlashGeneration")

\* a simulation returned after the timer of its delay had fired
C30_Witness ==
    /\ Finished(1, "simulateFlashGeneration")
    /\ Len(trace[1]) = 7
    /\ trace[1][7].read = "delay"
    /\ trace[1][7].st = "ok"
    /\ trace[1][3].st = "fail"

\* C31: every result simulateFlashGeneration returns is consistent: success = true if
\* and only if error = null, if and only if gasEstimate is not null, if and only if
\* steps has all five entries.
C31_ResultConsistent ==
    \A c \in CallIds :
        Finished(c, "simulateFlashGeneration") =>
            LET simulation == res[c].val
            IN  /\ simulation.success \in BOOLEAN
                /\ simulation.success <=> simulation.error = <<>>
                /\ simulation.success <=> simulation.gasEstimate # <<>>
                /\ simulation.success <=> Len(simulation.steps) = 5

\* a simulation failed at the fee-data read, its last remote read: three steps, no gas
\* estimate, an error
C31_Witness ==
    /\ Finished(1, "simulateFlashGeneration")
    /\ Len(trace[1]) = 6
    /\ trace[1][6].read = "getFeeData"
    /\ trace[1][6].st = "fail"
    /\ res[1].val.success = FALSE
    /\ Len(res[1].val.steps) = 3
    /\ res[1].val.gasEstimate = <<>>
    /\ res[1].val.error # <<>>

LowBalanceWarning == "Low ETH balance - may not be sufficient for transactions"

TokenBalanceWarning == "Could not retrieve USDT balance"

\* C32: every report validateWallet returns has isValid = false if and only if errors
\* is not empty; errors has at most one entry; warnings is a subsequence of <<the
\* low-balance warning, the token-balance warning>>; and info has a token balance only
\* if isValid = true.
C32_ReportConsistent ==
    \A c \in CallIds :
        Finished(c, "validateWallet") =>
            LET validation == res[c].val
            IN  /\ res[c].kind = "return"
                /\ validation.isValid \in BOOLEAN
                /\ ~validation.isValid <=> validation.errors # <<>>
                /\ Len(validation.errors) <= 1
                /\ validation.warnings \in
                        { <<>>, <<LowBalanceWarning>>, <<TokenBalanceWarning>>,
                          <<LowBalanceWarning, TokenBalanceWarning>> }
                /\ "usdtBalance" \in DOMAIN validation.info => validation.isValid

\* a valid report with both warnings, in that order, and no token balance
C32_Witness ==
    /\ Finished(1, "validateWallet")
    /\ res[1].val.isValid
    /\ res[1].val.errors = <<>>
    /\ res[1].val.warnings = <<LowBalanceWarning, TokenBalanceWarning>>
    /\ "usdtBalance" \notin DOMAIN res[1].val.info

\* C33: when the native-balance read of validateWallet fails, the call issues no
\* token-balance read and returns isValid = false, the single error 'Failed to get ETH
\* balance: ' followed by the message of the failure, no warning, and info holding
\* exactly the network, the chain id and the wallet address recorded before.
C33_NativeFailureIsHard ==
    \A c \in CallIds :
        ( /\ call[c].op = "validateWallet"
          /\ Len(trace[c]) >= 2
          /\ trace[c][2].st = "fail" ) =>
            /\ trace[c][1].st = "ok"
            /\ trace[c][2].read = "getBalance"
            /\ Len(trace[c]) = 2
            /\ Done(c) =>
                /\ res[c].kind = "return"
                /\ res[c].val.isValid = FALSE
                /\ res[c].val.errors = << <<"Failed to get ETH balance: ">> \o trace[c][2].msg >>
                /\ res[c].val.warnings = <<>>
                /\ DOMAIN res[c].val.info = {"network", "chainId", "walletAddress"}
                /\ res[c].val.info["network"] = "mainnet"
                /\ res[c].val.info["chainId"] = <<"1">>
                /\ res[c].val.info["walletAddress"] = session.wallet[1].address

\* validateWallet returned after its native-balance read timed out
C33_Witness ==
    /\ Finished(1, "validateWallet")
    /\ Len(trace[1]) = 2
    /\ trace[1][2].read = "getBalance"
    /\ trace[1][2].st = "fail"
    /\ res[1].val.errors = << <<"Failed to get ETH balance: ", "request timeout">> >>

\* every token-balance read call c has been answered failed, every other read succeeded
TokenReadsFail(c) ==
    /\ \E i \in 1..Len(trace[c]) : trace[c][i].read = "balanceOf"
    /\ \A i \in 1..Len(trace[c]) :
            trace[c][i].st = (IF trace[c][i].read = "balanceOf" THEN "fail" ELSE "ok")

\* C34: where every token-balance read fails and every other read succeeds,
\* validateWallet returns isValid = true, and simulateFlashGeneration issues no
\* fee-data read and returns success = false with exactly the validation and the
\* balance-check step, gasEstimate = null and an error that starts with 'Failed to get
\* USDT balance: '.
C34_TokenFailureSoftThenFatal ==
    \A c \in CallIds :
        TokenReadsFail(c) =>
            /\ Finished(c, "validateWallet") =>
                    /\ res[c].kind = "return"
                    /\ res[c].val.isValid = TRUE
                    /\ res[c].val.errors = <<>>
            /\ call[c].op = "simulateFlashGeneration" =>
                    /\ \A i \in 1..Len(trace[c]) : trace[c][i].read # "getFeeData"
                    /\ Len(trace[c]) <= 5
                    /\ Done(c) =>
                        /\ res[c].kind = "return"
                        /\ Len(trace[c]) = 5
                        /\ res[c].val.success = FALSE
                        /\ res[c].val.steps = <<StepValidate, StepBalances>>
                        /\ res[c].val.gasEstimate = <<>>
                        /\ res[c].val.error # <<>>
                        /\ res[c].val.error[1][1] = "Failed to get USDT balance: "

\* a simulation whose validation passed with the token read failed, and whose own
\* token read failed too, has returned
C34_Witness ==
    /\ Finished(1, "simulateFlashGeneration")
    /\ Outcomes(1) = <<"ok", "ok", "fail", "ok", "fail">>
    /\ res[1].val.steps = <<StepValidate, StepBalances>>
    /\ res[1].val.error = << <<"Failed to get USDT balance: ", "request timeout">> >>

\* C35: hasSufficientBalance and validateWallet agree on every balance: when both
\* were returned the same native balance by the ledger, hasSufficientBalance returns
\* true if and only if the report of validateWallet carries no low-balance warning.
C35_SufficientIffNoWarning ==
    \A c, d \in CallIds :
        ( /\ Finished(c, "hasSufficientBalance")
          /\ trace[c][1].st = "ok"
          /\ Finished(d, "validateWallet")
          /\ Len(trace[d]) >= 2
          /\ trace[d][2].st = "ok"
          /\ trace[d][2].val = trace[c][1].val ) =>
            /\ res[c].kind = "return"
            /\ res[d].kind = "return"
            /\ res[c].val \in BOOLEAN
            /\ res[c].val <=> Occurrences(res[d].val.warnings, LowBalanceWarning) = 0

\* both were returned 0.01 ETH less one wei: insufficient, and the warning
C35_Witness ==
    /\ Finished(1, "hasSufficientBalance")
    /\ Finished(2, "validateWallet")
    /\ trace[1][1].st = "ok"
    /\ Len(trace[2]) = 3
    /\ trace[2][2].st = "ok"
    /\ trace[1][1].val = << [i \in 1..16 |-> 9] >>
    /\ trace[2][2].val = trace[1][1].val
    /\ res[1].val = FALSE
    /\ res[2].val.warnings[1] = LowBalanceWarning

\* both were returned exactly 0.01 ETH: sufficient, and no warning
C35_WitnessBoundary ==
    /\ Finished(1, "hasSufficientBalance")
    /\ Finished(2, "validateWallet")
    /\ trace[1][1].val = << MIN_BALANCE_REQUIRED >>
    /\ Len(trace[2]) = 3
    /\ trace[2][2].val = trace[1][1].val
    /\ trace[2][3].st = "ok"
    /\ res[1].val = TRUE
    /\ res[2].val.warnings = <<>>

\* the tests of the run of call c whose function has settled
Settled(c) == Cardinality({i \in 1..Len(trace[c]) : trace[c][i].st # "pending"})

\* the tests of the run of call c that runAll has been resumed after
Handled(c) ==
    IF Len(stack[c]) > 0 /\ res[c].kind # "none" THEN Settled(c) - 1 ELSE Settled(c)

\* C36: runAll runs the registered tests one at a time in registration order, records
\* exactly one result, PASSED or FAILED, per test, goes on after a failing test, and
\* returns a summary with total = passed + failed = the number of tests for a first
\* run and twice that number for a second run on the same runner (the results of
\* earlier runs are kept, so a run adds the number of tests to the total).
C36_RunAllRecordsEveryTest ==
    LET n == Len(runner.tests)
    IN  /\ \A i \in 1..Len(runner.results) :
            /\ runner.results[i].name = runner.tests[((i - 1) % n) + 1].name
            /\ runner.results[i].status \in {"PASSED", "FAILED"}
        /\ \A c \in CallIds :
            call[c].op = "runAll" =>
                /\ Len(trace[c]) <= n
                /\ Len(trace[c]) - Settled(c) <= 1
                /\ Len(runner.results) - Handled(c) \in {k * n : k \in 0..(MaxRuns - 1)}
                /\ Done(c) =>
                    /\ res[c].kind = "return"
                    /\ Settled(c) = n
                    /\ res[c].val.total \in {k * n : k \in 1..MaxRuns}
                    /\ res[c].val.total = res[c].val.passed + res[c].val.failed
                    /\ res[c].val.total = Len(runner.results)
                    /\ res[c].val.results = runner.results

====
